---- MODULE Spec2Model ----
(***************************************************************************)
(* A model of the csv-to-json ingestion of the multi-vector-simulator      *)
(* (src/src/A1_csv_to_json.py), of the parameter reconciliation and the    *)
(* nested-dict helpers of src/src/multi_vector_simulator/utils/__init__.py *)
(* and of the end of a simulation in D0_modelling_and_optimization.py.     *)
(*                                                                         *)
(* The machines share the variables, each with its own specification and   *)
(* the others idle: the coercion of one cell (SpecCoerce), one call of     *)
(* compare_input_parameters_with_reference (SpecCmp), one call of          *)
(* create_json_from_csv (SpecLoad; SpecReconcile takes the last two side   *)
(* by side), the calls of create_input_json on one directory (Spec;        *)
(* SpecLoadRun takes single loads and runs side by side), a call of        *)
(* set_nested_value followed by get_nested_value (SpecNested), a call of   *)
(* split_nested_path (SpecPath) and a call of model_building.simulating    *)
(* with the return of run_oemof (SpecSim).                                 *)
(*                                                                         *)
(* Text is modelled as a sequence of chunks.  A chunk is either one of the *)
(* characters the code looks for ("[", "]", "{", "}", ";") or a word that  *)
(* holds none of them.  Python values are tagged records, so that values   *)
(* of different Python types can be compared.                              *)
(***************************************************************************)
EXTENDS Integers, Sequences, FiniteSets, TLC

VARIABLES
    unitTag,      \* coercion: row["unit"] of the cell being converted
    rawCell,      \* coercion: row[column], the cell as pandas read it
    cellOut,      \* coercion: outcome of the per-cell step, NotRun before it
    cmpIn,        \* reconciliation: the arguments of the call
    cmpOut,       \* reconciliation: answer, main_parameters and exception
    ldIn,         \* table load: the arguments of create_json_from_csv
    ldOut,        \* table load: its outcome
    input_directory, \* run: the csv files of the directory, by base name
    listing,      \* run: os.listdir(input_directory), in its order
    artifact,     \* run: the content of the file CSV_FNAME, Absent without it
    reqParams,    \* run: REQUIRED_CSV_PARAMETERS, lists shared by all calls
    pc,           \* run: where create_input_json stands
    pending,      \* run: the files the loop has still to visit
    input_json,   \* run: the dict being compiled
    runLog,       \* run: the diagnostics of the current call
    runErr,       \* run: the exception the current call raised
    runReads,     \* run: the pd.read_csv calls of the current call, in order
    atCall,       \* run: the artifact as the current call found it
    history,      \* run: the calls that ended and the deletions, in order
    written,      \* run: the artifacts the completed calls wrote, in order
    fnIn,         \* utility call: the function called and its arguments
    fnOut         \* utility call: what the call returned or raised

vars == <<unitTag, rawCell, cellOut, cmpIn, cmpOut, ldIn, ldOut,
          input_directory, listing, artifact, reqParams, pc, pending,
          input_json, runLog, runErr, runReads, atCall, history, written,
          fnIn, fnOut>>

coerceVars == <<unitTag, rawCell, cellOut>>
cmpVars    == <<cmpIn, cmpOut>>
ldVars     == <<ldIn, ldOut>>
runVars    == <<input_directory, listing, artifact, reqParams, pc, pending,
                input_json, runLog, runErr, runReads, atCall, history,
                written>>
fnVars     == <<fnIn, fnOut>>

(***************************************************************************)
(* Bounds of the model: the chunks of a cell drawn for coercion, the calls *)
(* of create_input_json in one process, and the sub-tokens of a list cell. *)
(***************************************************************************)
MaxLen == 4
MaxCalls == 3
MaxItems == 3

(***************************************************************************)
(* Python values.                                                          *)
(***************************************************************************)
PyStr(s)  == [t |-> "str", s |-> s]
PyInt(n)  == [t |-> "int", n |-> n]
PyBool(b) == [t |-> "bool", b |-> b]
PyNone    == [t |-> "none"]
PyNaN     == [t |-> "nan"]
PyList(l) == [t |-> "list", items |-> l]
PyDict(b) == [t |-> "dict", body |-> b]
ValueUnit(v, u) == [t |-> "vu", value |-> v, unit |-> u]

NotRun == [t |-> "notrun"]
Absent == [t |-> "absent"]
NoErr  == "none"

IsStr(v) == v.t = "str"

(***************************************************************************)
(* Text helpers: `c in s`, s.replace(c, ""), s.split(";").                 *)
(***************************************************************************)
Has(s, c) == \E k \in 1..Len(s) : s[k] = c

Remove(s, c) == SelectSeq(s, LAMBDA x : x # c)

RECURSIVE Split(_, _)
Split(s, sep) ==
    IF ~Has(s, sep) THEN <<s>>
    ELSE LET k == CHOOSE j \in 1..Len(s) :
                      s[j] = sep /\ \A m \in 1..(j - 1) : s[m] # sep
         IN  <<SubSeq(s, 1, k - 1)>> \o Split(SubSeq(s, k + 1, Len(s)), sep)

(***************************************************************************)
(* The parsers conversion() calls.  json.loads accepts an object literal:  *)
(* "{}" or "{" body "}", where the chunk "kv" stands for the text of one   *)
(* well-formed 'key':'value' body.  int() accepts a run of digits, float() *)
(* also digits around one ".", and the text "NaN".                         *)
(***************************************************************************)
Digits == {"1", "2", "3", "5"}

JsonOk(s) == \/ s = <<"{", "}">>
             \/ s = <<"{", "kv", "}">>

JsonLoads(s) == PyDict(SubSeq(s, 2, Len(s) - 1))

IntOk(v) == \/ v.t = "int"
            \/ IsStr(v) /\ Len(v.s) > 0 /\ \A k \in 1..Len(v.s) : v.s[k] \in Digits

DigitVal(c) == IF c = "1" THEN 1 ELSE IF c = "2" THEN 2
               ELSE IF c = "3" THEN 3 ELSE 5

RECURSIVE Decimal(_)
Decimal(s) == IF s = <<>> THEN 0
              ELSE 10 * Decimal(SubSeq(s, 1, Len(s) - 1)) + DigitVal(s[Len(s)])

IntOf(v) == IF v.t = "int" THEN v ELSE PyInt(Decimal(v.s))

PyFloat(whole, frac) == [t |-> "float", whole |-> whole, frac |-> frac]

AllDigits(s) == \A k \in 1..Len(s) : s[k] \in Digits

\* digits with one "." among them
PointOk(s) ==
    /\ Len(s) > 1
    /\ Cardinality({k \in 1..Len(s) : s[k] = "."}) = 1
    /\ AllDigits(Remove(s, "."))

FloatOk(v) == \/ v.t = "nan"
              \/ IsStr(v) /\ v.s = <<"NaN">>
              \/ IsStr(v) /\ PointOk(v.s)

FloatOf_whole(v) ==
    IF v.t = "nan" \/ v.s = <<"NaN">> THEN PyNaN
    ELSE PyInt(Decimal(Split(v.s, ".")[1]))

\* float(value) where int(value) has failed: the digits before the point as
\* a number and the digits after it
FloatOf(v) ==
    IF v.t = "nan" \/ v.s = <<"NaN">> THEN PyNaN
    ELSE PyFloat(Decimal(Split(v.s, ".")[1]), Split(v.s, ".")[2])

(***************************************************************************)
(* conversion(filename, column_dict, row, i, column, value).               *)
(* The outcome is the updated column_dict, the diagnostics logged and the  *)
(* exception raised, if any.                                               *)
(***************************************************************************)
Outcome(d, g, e) == [dict |-> d, diags |-> g, err |-> e]

EmptyDict == [k \in {} |-> NotRun]

SymDiff(A, B) == (A \ B) \cup (B \ A)

Put(d, i, v) == [k \in (DOMAIN d) \cup {i} |-> IF k = i THEN v ELSE d[k]]

BoolValue_defaulted(value) ==
    IF IsStr(value) /\ value.s \in {<<"True">>, <<"true">>, <<"t">>, <<"T">>}
    THEN PyBool(TRUE)
    ELSE PyBool(FALSE)

\* lines 408-418: `value` after the tests of the "bool" unit
BoolValue(value) ==
    IF IsStr(value) /\ value.s \in {<<"True">>, <<"true">>, <<"t">>}
    THEN PyBool(TRUE)
    ELSE IF IsStr(value) /\ value.s \in {<<"False">>, <<"false">>, <<"F">>}
    THEN PyBool(FALSE)
    ELSE value

conversion(column_dict, unit, i, value) ==
    IF IsStr(value) /\ (Has(value.s, "{") \/ Has(value.s, "}")) THEN
        IF ~Has(value.s, "{") \/ ~Has(value.s, "}")
        THEN Outcome(column_dict, {"brace_missing"}, NoErr)
        ELSE IF JsonOk(value.s)
             THEN Outcome(Put(column_dict, i, JsonLoads(value.s)),
                          {"is_timeseries"}, NoErr)
             ELSE Outcome(column_dict, {}, "JSONDecodeError")
    ELSE IF unit = "str" THEN
        Outcome(Put(column_dict, i, value), {}, NoErr)
    ELSE IF unit = "bool" THEN
        Outcome(Put(column_dict, i, ValueUnit(BoolValue(value), unit)),
                IF BoolValue(value).t = "bool" THEN {} ELSE {"not_boolean"},
                NoErr)
    ELSE IF IsStr(value) /\ value.s = <<"None">> THEN
        Outcome(Put(column_dict, i, ValueUnit(PyNone, unit)), {}, NoErr)
    ELSE IF IntOk(value) THEN
        Outcome(Put(column_dict, i, ValueUnit(IntOf(value), unit)), {}, NoErr)
    ELSE IF FloatOk(value) THEN
        Outcome(Put(column_dict, i, ValueUnit(FloatOf(value), unit)), {}, NoErr)
    ELSE Outcome(column_dict, {}, "ValueError")

(***************************************************************************)
(* The per-cell step of create_json_from_csv: a cell holding a bracket is  *)
(* a list whose sub-tokens go through conversion() one by one, every other *)
(* cell goes through conversion() whole.                                   *)
(***************************************************************************)
HasKeyValue(node) == node.t = "vu"

RECURSIVE ListLoop(_, _, _, _, _, _)
ListLoop(column_dict, unit, i, value_list, item, diags) ==
    IF item > Len(value_list) THEN
        Outcome(Put(column_dict, i,
                    IF unit # "str" THEN ValueUnit(PyList(value_list), unit)
                    ELSE PyList(value_list)),
                diags \cup {"is_list"}, NoErr)
    ELSE
        LET r == conversion(column_dict, unit, i, value_list[item])
            g == diags \cup r.diags
        IN  IF r.err # NoErr THEN Outcome(r.dict, g, r.err)
            ELSE IF i \notin DOMAIN r.dict THEN Outcome(r.dict, g, "KeyError")
            ELSE LET got == IF unit # "str" /\ HasKeyValue(r.dict[i])
                            THEN r.dict[i].value
                            ELSE r.dict[i]
                 IN  ListLoop(r.dict, unit, i,
                              [value_list EXCEPT ![item] = got], item + 1, g)

Tokens(s) ==
    LET parts == Split(Remove(Remove(s, "["), "]"), ";")
    IN  [k \in 1..Len(parts) |-> PyStr(parts[k])]

ProcessCell_brace_and_str_first(column_dict, unit, i, cell) ==
    IF /\ IsStr(cell)
       /\ Has(cell.s, "[") /\ Has(cell.s, "]")
       /\ ~Has(cell.s, "{") /\ ~Has(cell.s, "}")
       /\ unit # "str"
    THEN ListLoop(column_dict, unit, i, Tokens(cell.s), 1, {})
    ELSE conversion(column_dict, unit, i, cell)

ProcessCell(column_dict, unit, i, cell) ==
    IF IsStr(cell) /\ (Has(cell.s, "[") \/ Has(cell.s, "]")) THEN
        IF ~Has(cell.s, "[") \/ ~Has(cell.s, "]")
        THEN Outcome(column_dict, {"bracket_missing"}, NoErr)
        ELSE ListLoop(column_dict, unit, i, Tokens(cell.s), 1, {})
    ELSE conversion(column_dict, unit, i, cell)

(***************************************************************************)
(* Tables.  A table (a pandas DataFrame read with index_col=0) has its     *)
(* column names in file order ("unit" among them), its index in file       *)
(* order, the unit tag of every row and the cell of every row and asset    *)
(* column.  A file maps every candidate separator to the table read_csv    *)
(* yields with it; NoTable has no column.  A directory maps file names     *)
(* (without ".csv") to files.                                              *)
(***************************************************************************)
CSV_SEPARATORS == <<",", ";", "&">>

REQUIRED_CSV_FILES == {"economic_data", "energyProduction", "energyStorage"}

REQUIRED_CSV_PARAMETERS ==
    [economic_data    |-> <<"label", "tax">>,
     energyProduction |-> <<"label", "installedCap">>,
     energyStorage    |-> <<"label", "storage_filename">>]

SingleDictFiles == {"economic_data", "project_data", "simulation_settings"}

\* the hardcoded list of add_storage_components
StorageParameters ==
    <<"age_installed", "capex_fix", "capex_var", "efficiency", "installedCap",
      "label", "lifetime", "opex_fix", "unit">>

StorageSpecific == {"c_rate", "opex_var", "soc_initial", "soc_max", "soc_min"}

Table(cols, index, unit, cell) ==
    [cols |-> cols, index |-> index, unit |-> unit, cell |-> cell]

NoTable == Table(<<>>, <<>>, EmptyDict, EmptyDict)

SeqSet(q) == {q[k] : k \in DOMAIN q}

Diag(kind, file, column, param) ==
    [kind |-> kind, file |-> file, column |-> column, param |-> param]

Unbound == [bound |-> FALSE]
Bound(l) == [bound |-> TRUE, list |-> l]

IsNull(c) == c.t = "nan"

\* the outcome of create_json_from_csv: the returned dict, the exception, the
\* diagnostics, the `parameters` list as the call leaves it, the labels of
\* asset_name_string and the files read, in order
Loaded(ret, err, diags, params, names, reads) ==
    [ret |-> ret, err |-> err, diags |-> diags, params |-> params,
     names |-> names, reads |-> reads]

\* lines 161-184: the parse of the first separator that yields a column
read_csv(file) ==
    LET good == {k \in 1..Len(CSV_SEPARATORS) :
                    Len(file[CSV_SEPARATORS[k]].cols) > 0}
    IN  IF good = {} THEN NoTable
        ELSE file[CSV_SEPARATORS[CHOOSE k \in good : \A m \in good : k <= m]]

RECURSIVE Attempts(_, _)
Attempts_all(file, idx) == Len(CSV_SEPARATORS)

\* lines 163-175: the number of pd.read_csv calls of the separator loop that
\* starts at position idx
Attempts(file, idx) ==
    IF idx >= Len(CSV_SEPARATORS) THEN Len(CSV_SEPARATORS)
    ELSE IF Len(file[CSV_SEPARATORS[idx]].cols) > 0 THEN idx
    ELSE Attempts(file, idx + 1)

\* lines 165-170: the pd.read_csv calls on a file, each with its separator
Reads(filename, file) ==
    [k \in 1..Attempts(file, 1) |-> <<filename, CSV_SEPARATORS[k]>>]

\* lines 197-219: the parameter check of a table that is no storage table
ParameterCheck_swapped(filename, parameters, df) ==
    LET extra == SymDiff(SeqSet(parameters), SeqSet(df.index))
    IN  {Diag(IF i \in SeqSet(df.index) THEN "missing" ELSE "not_recognized",
              filename, "", i) : i \in extra}

ParameterCheck(filename, parameters, df) ==
    LET extra == SymDiff(SeqSet(parameters), SeqSet(df.index))
    IN  {Diag(IF i \in SeqSet(parameters) THEN "missing" ELSE "not_recognized",
              filename, "", i) : i \in extra}

\* lines 245-255: the column specific parameters; an invalid column name
\* leaves `extra` as it was
RoleExtra(column, extra) ==
    IF column = "storage capacity"
    THEN Bound(<<"soc_initial", "soc_max", "soc_min">>)
    ELSE IF column = "input power" \/ column = "output power"
    THEN Bound(<<"c_rate", "opex_var">>)
    ELSE extra

\* lines 263-304: the cell of row i in `column` after the storage check
StorageCell_null_kept(c, i, column_parameters) ==
    IF i \notin SeqSet(column_parameters) THEN
        IF i \notin StorageSpecific THEN PyStr(<<"NaN">>)
        ELSE IF ~IsNull(c) THEN PyStr(<<"NaN">>)
        ELSE c
    ELSE c

StorageCell(c, i, column_parameters) ==
    IF i \notin SeqSet(column_parameters) THEN
        IF i \notin StorageSpecific THEN PyStr(<<"NaN">>)
        ELSE IF ~IsNull(c) THEN PyStr(<<"NaN">>)
        ELSE c
    ELSE IF IsNull(c) THEN PyInt(0)
    ELSE c

StorageCellDiag(c, i, column_parameters) ==
    IF i \notin SeqSet(column_parameters) THEN
        IF i \notin StorageSpecific THEN "storage_not_recognized"
        ELSE IF ~IsNull(c) THEN "should_be_nan"
        ELSE "nan_is_correct"
    ELSE IF IsNull(c) THEN "set_to_zero"
    ELSE "kept"

\* lines 236-255: the diagnostics on the shape of the table and the column
ShapeDiags(filename, df, column) ==
    (IF Len(df.cols) # 4
     THEN {Diag("wrong_column_count", filename, column, "")} ELSE {})
    \cup
    (IF column \notin {"storage capacity", "input power", "output power"}
     THEN {Diag("invalid_column", filename, column, "")} ELSE {})

\* lines 257-304: the diagnostics on the parameters of the column
StorageDiags(filename, df, column, column_parameters) ==
    {Diag("missing", filename, column, i) :
        i \in SeqSet(column_parameters) \ SeqSet(df.index)}
    \cup {Diag(StorageCellDiag(df.cell[i][column], i, column_parameters),
               filename, column, i) :
            i \in {r \in SeqSet(df.index) :
                    StorageCellDiag(df.cell[r][column], r, column_parameters)
                        # "kept"}}

StorageColumn(df, column, column_parameters) ==
    [i \in SeqSet(df.index) |->
        StorageCell(df.cell[i][column], i, column_parameters)]

\* lines 307-354: the rows of one column, in table order
RowState(dict, names, diags, err) ==
    [dict |-> dict, names |-> names, diags |-> diags, err |-> err]

RECURSIVE RowLoop(_, _, _, _, _, _)
RowLoop(filename, column, rows, unit, cells, st) ==
    IF rows = <<>> \/ st.err # NoErr THEN st
    ELSE
        LET i == Head(rows)
            c == cells[i]
        IN  IF i = "label" /\ ~IsStr(c)
            THEN RowState(st.dict, st.names, st.diags, "TypeError")
            ELSE
                LET r == ProcessCell(st.dict, unit[i], i, c)
                IN  RowLoop(filename, column, Tail(rows), unit, cells,
                        RowState(r.dict,
                                 IF i = "label" THEN Append(st.names, c.s)
                                 ELSE st.names,
                                 st.diags \cup {Diag(k, filename, column, i) :
                                                    k \in r.diags},
                                 r.err))

\* value[:-4] of a text whose last chunk is a four-character extension
StripExtension(s) ==
    IF Len(s) > 1 /\ s[Len(s)] = ".csv" THEN SubSeq(s, 1, Len(s) - 1) ELSE <<"?">>

Update_first_kept(d, e) == [k \in (DOMAIN d) \cup (DOMAIN e) |-> IF k \in DOMAIN d THEN d[k] ELSE e[k]]

\* d.update(e)
Update(d, e) == [k \in (DOMAIN d) \cup (DOMAIN e) |-> IF k \in DOMAIN e THEN e[k] ELSE d[k]]

\* lines 370-381: no main key for the single dicts and the storage tables
ReturnedDict_always_wrapped(filename, storage, single_dict) ==
    IF storage THEN single_dict ELSE [k \in {filename} |-> single_dict]

ReturnedDict(filename, storage, single_dict) ==
    IF filename \in SingleDictFiles THEN single_dict
    ELSE IF storage THEN single_dict
    ELSE [k \in {filename} |-> single_dict]

ColState(single_dict, names, extra, diags, err, reads) ==
    [single_dict |-> single_dict, names |-> names, extra |-> extra,
     diags |-> diags, err |-> err, reads |-> reads]

\* line 256: column_parameters = parameters + extra
ColumnParameters(storage, parameters, extra) ==
    IF storage THEN parameters \o extra.list ELSE <<>>

\* lines 235-304: what the storage checks log for the column
ColumnDiags(storage, filename, df, column, column_parameters) ==
    IF storage
    THEN ShapeDiags(filename, df, column) \cup
         StorageDiags(filename, df, column, column_parameters)
    ELSE {}

\* the cells of the column that the row loop reads
ColumnCells(storage, df, column, column_parameters) ==
    IF storage THEN StorageColumn(df, column, column_parameters)
    ELSE [i \in SeqSet(df.index) |-> df.cell[i][column]]

\* lines 305-307: the rows the row loop visits; a storage column loses its
\* null rows
ColumnRows(storage, df, column, column_parameters) ==
    IF storage
    THEN SelectSeq(df.index,
                   LAMBDA i : ~IsNull(StorageCell(df.cell[i][column], i,
                                                  column_parameters)))
    ELSE df.index

\* lines 186-229: the `parameters` list after the test for maximumCap
WithMaximumCap(parameters, df) ==
    IF "maximumCap" \in SeqSet(df.index)
    THEN Append(parameters, "maximumCap")
    ELSE parameters

\* lines 186-229: what is logged before the column loop
TableDiags(filename, parameters, storage, df) ==
    (IF "maximumCap" \in SeqSet(df.index) THEN {}
     ELSE {Diag("maximumCap_unused", filename, "", "maximumCap")})
    \cup
    (IF storage THEN {}
     ELSE ParameterCheck(filename, WithMaximumCap(parameters, df), df))
    \cup
    (IF Len(df.cols) = 1 THEN {Diag("no_assets", filename, "", "")} ELSE {})

\* lines 364-368: the log of the assets added, with asset_name_string
Summary(filename, names) ==
    [kind |-> "assets_added", file |-> filename, column |-> "", param |-> "",
     names |-> names]

\* lines 364-381: the end of create_json_from_csv after the column loop
Return(filename, storage, params, st) ==
    IF st.err # NoErr
    THEN Loaded(NotRun, st.err, st.diags, params, st.names, st.reads)
    ELSE Loaded(ReturnedDict(filename, storage, st.single_dict),
                NoErr, st.diags \cup {Summary(filename, st.names)}, params,
                st.names, st.reads)

RECURSIVE create_json_from_csv(_, _, _, _)
RECURSIVE add_storage_components(_, _)
RECURSIVE add_storage_components_no_schema(_, _)
RECURSIVE ColumnLoop(_, _, _, _, _, _, _)
RECURSIVE AfterRows(_, _, _, _, _, _, _, _, _)
RECURSIVE AfterStorage(_, _, _, _, _, _, _, _, _, _)

\* lines 231-362 for the columns from position n on
ColumnLoop(dir, filename, parameters, storage, df, n, st) ==
    IF n > Len(df.cols) \/ st.err # NoErr THEN st
    ELSE IF df.cols[n] = "unit"
    THEN ColumnLoop(dir, filename, parameters, storage, df, n + 1, st)
    ELSE
        LET column == df.cols[n]
            extra  == IF storage THEN RoleExtra(column, st.extra) ELSE st.extra
        IN  IF storage /\ ~extra.bound
            THEN ColState(st.single_dict, st.names, extra,
                          st.diags \cup ShapeDiags(filename, df, column),
                          "UnboundLocalError", st.reads)
            ELSE AfterRows(dir, filename, parameters, storage, df, n, st, extra,
                    RowLoop(filename, column,
                            ColumnRows(storage, df, column,
                                ColumnParameters(storage, parameters, extra)),
                            df.unit,
                            ColumnCells(storage, df, column,
                                ColumnParameters(storage, parameters, extra)),
                            RowState(EmptyDict, st.names,
                                st.diags \cup
                                ColumnDiags(storage, filename, df, column,
                                    ColumnParameters(storage, parameters, extra)),
                                NoErr)))

\* lines 356-362: the column's record is stored under the column name; for
\* energyStorage the storage table named by the cell is loaded
AfterRows(dir, filename, parameters, storage, df, n, st, extra, r) ==
    IF r.err # NoErr
    THEN ColState(st.single_dict, r.names, extra, r.diags, r.err, st.reads)
    ELSE IF filename # "energyStorage"
    THEN ColumnLoop(dir, filename, parameters, storage, df, n + 1,
            ColState(Put(st.single_dict, df.cols[n], r.dict), r.names,
                     extra, r.diags, NoErr, st.reads))
    ELSE IF "storage_filename" \notin SeqSet(df.index)
    THEN ColState(Put(st.single_dict, df.cols[n], r.dict), r.names,
                  extra, r.diags, "KeyError", st.reads)
    ELSE IF ~IsStr(df.cell["storage_filename"][df.cols[n]])
    THEN ColState(Put(st.single_dict, df.cols[n], r.dict), r.names,
                  extra, r.diags, "TypeError", st.reads)
    ELSE AfterStorage(dir, filename, parameters, storage, df, n, st, extra, r,
            add_storage_components(
                StripExtension(df.cell["storage_filename"][df.cols[n]].s)[1],
                dir))

AfterStorage_leak(dir, filename, parameters, storage, df, n, st, extra, r, sub) ==
    IF sub.err # NoErr
    THEN ColState(Put(st.single_dict, df.cols[n], r.dict), r.names, extra,
                  r.diags \cup sub.diags, sub.err, st.reads \o sub.reads)
    ELSE ColumnLoop(dir, filename, parameters, storage, df, n + 1,
            ColState(Put(st.single_dict, df.cols[n], Update(r.dict, sub.ret)),
                     r.names \o sub.names, extra, r.diags \cup sub.diags, NoErr,
                     st.reads \o sub.reads))

\* line 362: single_dict[column].update(storage_dict)
AfterStorage(dir, filename, parameters, storage, df, n, st, extra, r, sub) ==
    IF sub.err # NoErr
    THEN ColState(Put(st.single_dict, df.cols[n], r.dict), r.names, extra,
                  r.diags \cup sub.diags, sub.err, st.reads \o sub.reads)
    ELSE ColumnLoop(dir, filename, parameters, storage, df, n + 1,
            ColState(Put(st.single_dict, df.cols[n], Update(r.dict, sub.ret)),
                     r.names, extra, r.diags \cup sub.diags, NoErr,
                     st.reads \o sub.reads))

\* lines 131-382
create_json_from_csv(dir, filename, parameters, storage) ==
    IF Len(read_csv(dir[filename]).cols) = 0
    THEN Loaded(NotRun, "ValueError", {}, parameters, <<>>,
                Reads(filename, dir[filename]))
    ELSE Return(filename, storage,
                WithMaximumCap(parameters, read_csv(dir[filename])),
                ColumnLoop(dir, filename,
                    WithMaximumCap(parameters, read_csv(dir[filename])),
                    storage, read_csv(dir[filename]), 1,
                    ColState(EmptyDict, <<>>,
                             IF storage THEN Unbound ELSE Bound(<<>>),
                             TableDiags(filename, parameters, storage,
                                        read_csv(dir[filename])),
                             NoErr, Reads(filename, dir[filename]))))

add_storage_components_no_schema(storage_filename, dir) ==
    IF storage_filename \notin DOMAIN dir
    THEN Loaded(NotRun, "TypeError",
                {Diag("storage_file_missing", storage_filename, "", "")},
                StorageParameters, <<>>, <<>>)
    ELSE create_json_from_csv(dir, storage_filename, StorageParameters, FALSE)

\* lines 432-467; a missing file returns None, which the caller's
\* single_dict[column].update(storage_dict) rejects with a TypeError
add_storage_components(storage_filename, dir) ==
    IF storage_filename \notin DOMAIN dir
    THEN Loaded(NotRun, "TypeError",
                {Diag("storage_file_missing", storage_filename, "", "")},
                StorageParameters, <<>>, <<>>)
    ELSE create_json_from_csv(dir, storage_filename, StorageParameters, TRUE)

(***************************************************************************)
(* Coercion of one cell: the inputs are drawn at Init, CoerceCell applies  *)
(* the per-cell step to an empty column_dict under the parameter name "p". *)
(***************************************************************************)
Alphabet == {"[", "]", "{", "}", ";", ".", "1", "t", "kv"}

UnitTags == {"str", "bool", "kW"}

Texts == UNION {[1..n -> Alphabet] : n \in 1..MaxLen}

\* cells of one word: the literals conversion() compares with, and others
Words == {"True", "true", "t", "False", "false", "F", "maybe", "T", "f",
          "TRUE", "None", "NaN"}

Numbers == {<<"1">>, <<"2">>, <<"3">>, <<"1", "2">>, <<"1", "2", ".", "5">>}

\* the sub-tokens of the list cells
ItemTexts == {<<"1">>, <<"2">>, <<"3">>, <<"1", ".", "5">>, <<"t">>, <<"maybe">>,
              <<"None">>, <<"{", "kv", "}">>, <<"{">>}

RECURSIVE Join(_)
Join(items) ==
    IF Len(items) = 1 THEN items[1]
    ELSE items[1] \o <<";">> \o Join(Tail(items))

ListTexts ==
    {<<"[">> \o Join(items) \o <<"]">> :
        items \in UNION {[1..n -> ItemTexts] : n \in 1..MaxItems}}

Cells ==
    {PyStr(s) : s \in Texts \cup Numbers \cup ListTexts}
    \cup {PyStr(<<w>>) : w \in Words} \cup {PyNaN}

IdleCoerce == unitTag = "str" /\ rawCell = NotRun /\ cellOut = NotRun
IdleCmp    == cmpIn = NotRun /\ cmpOut = NotRun
IdleLd     == ldIn = NotRun /\ ldOut = NotRun
IdleFn     == fnIn = NotRun /\ fnOut = NotRun
IdleRun    ==
    /\ input_directory = NotRun /\ listing = <<>> /\ artifact = NotRun
    /\ reqParams = NotRun /\ pc = "off" /\ pending = <<>>
    /\ input_json = NotRun /\ runLog = {} /\ runErr = NoErr
    /\ runReads = <<>> /\ atCall = NotRun /\ history = <<>>
    /\ written = <<>>

InitCoerce ==
    /\ unitTag \in UnitTags
    /\ rawCell \in Cells
    /\ cellOut = NotRun
    /\ IdleCmp
    /\ IdleLd
    /\ IdleRun
    /\ IdleFn

CoerceCell ==
    /\ rawCell # NotRun
    /\ cellOut = NotRun
    /\ cellOut' = ProcessCell(EmptyDict, unitTag, "p", rawCell)
    /\ UNCHANGED <<unitTag, rawCell, cmpVars, ldVars, runVars, fnVars>>

NextCoerce == CoerceCell

SpecCoerce == InitCoerce /\ [][NextCoerce]_vars

(***************************************************************************)
(* Classification of a produced node, and the rule a cell falls under.     *)
(***************************************************************************)
Produced == cellOut # NotRun /\ cellOut.err = NoErr /\ "p" \in DOMAIN cellOut.dict

NodeKind(node) ==
    IF node.t = "dict" THEN "timeseries"
    ELSE IF node.t = "list" THEN "list"
    ELSE IF node.t # "vu" THEN "rawstring"
    ELSE IF node.value.t = "list" THEN "list"
    ELSE IF node.unit = "bool" THEN "boolean"
    ELSE "numeric"

ListItems(node) == IF node.t = "list" THEN node.items ELSE node.value.items

HasBrace(c)   == IsStr(c) /\ (Has(c.s, "{") \/ Has(c.s, "}"))
HasBracket(c) == IsStr(c) /\ (Has(c.s, "[") \/ Has(c.s, "]"))

\* the order the specification states: brace, "str", bracket, "bool", numeric
StatedRule(unit, c) ==
    IF HasBrace(c) THEN "timeseries"
    ELSE IF unit = "str" THEN "rawstring"
    ELSE IF HasBracket(c) THEN "list"
    ELSE IF unit = "bool" THEN "boolean"
    ELSE "numeric"

\* the order with the bracket test ahead of the brace and "str" tests
BracketFirstRule(unit, c) ==
    IF HasBracket(c) THEN "list"
    ELSE IF HasBrace(c) THEN "timeseries"
    ELSE IF unit = "str" THEN "rawstring"
    ELSE IF unit = "bool" THEN "boolean"
    ELSE "numeric"

JSON_EXT == "json"
CSV_EXT  == "csv"

REQUIRED_MVS_PARAMETERS(ext) ==
    [simulation_settings |-> {"label", "output_lp_file"},
     energyProduction    |-> {"label", "maximumCap"}]

KNOWN_EXTRA_PARAMETERS ==
    [maximumCap     |-> [unit |-> "kW",   default |-> PyNone],
     output_lp_file |-> [unit |-> "bool", default |-> PyBool(FALSE)]]

NonAssetGroups == {"simulation_settings"}

DefaultEntry(sp) ==
    ValueUnit(KNOWN_EXTRA_PARAMETERS[sp].default, KNOWN_EXTRA_PARAMETERS[sp].unit)

BagAdd(bag, S) ==
    [n \in (DOMAIN bag) \cup S |->
        (IF n \in DOMAIN bag THEN bag[n] ELSE 0) + (IF n \in S THEN 1 ELSE 0)]

CmpState(tree, missing, extra, err) ==
    [tree |-> tree, missing |-> missing, extra |-> extra, err |-> err]

\* lines 209-260 for one asset k of group mp
CompareAsset(st, a, mp, k) ==
    LET required     == REQUIRED_MVS_PARAMETERS(a.ext)[mp]
        provided     == DOMAIN st.tree[mp][k]
        not_matching == SymDiff(provided, required)
        defaulted    == {sp \in not_matching \cap required :
                            sp \in DOMAIN KNOWN_EXTRA_PARAMETERS /\ a.set_default}
        missing      == (not_matching \cap required) \ defaulted
        extra        == not_matching \ required
        filled       == [sp \in provided \cup defaulted |->
                            IF sp \in defaulted THEN DefaultEntry(sp)
                            ELSE st.tree[mp][k][sp]]
    IN  IF st.err # NoErr THEN st
        ELSE IF defaulted # {} /\ a.ext = CSV_EXT
        THEN CmpState(st.tree, st.missing, st.extra, "TypeError")
        ELSE CmpState(
                [st.tree EXCEPT ![mp][k] = filled],
                IF missing = {} THEN st.missing
                ELSE Put(st.missing, mp,
                         BagAdd(IF mp \in DOMAIN st.missing THEN st.missing[mp]
                                ELSE EmptyDict, missing)),
                IF extra = {} THEN st.extra
                ELSE Put(st.extra, mp,
                         (IF mp \in DOMAIN st.extra THEN st.extra[mp] ELSE {})
                            \cup extra),
                NoErr)

RECURSIVE CompareAssets(_, _, _, _)
CompareAssets(st, a, mp, todo) ==
    IF todo = {} THEN st
    ELSE LET k == CHOOSE x \in todo : TRUE
         IN  CompareAssets(CompareAsset(st, a, mp, k), a, mp, todo \ {k})

\* lines 172-260 for one main parameter mp
CompareGroup(st, a, mp) ==
    IF st.err # NoErr THEN st
    ELSE IF mp \notin DOMAIN REQUIRED_MVS_PARAMETERS(a.ext)
    THEN CmpState(st.tree, st.missing, Put(st.extra, mp, {}), NoErr)
    ELSE CompareAssets(st, a, mp, DOMAIN st.tree[mp])

RECURSIVE CompareGroups(_, _, _)
CompareGroups(st, a, todo) ==
    IF todo = {} THEN st
    ELSE LET mp == CHOOSE x \in todo : TRUE
         IN  CompareGroups(CompareGroup(st, a, mp), a, todo \ {mp})

\* lines 262-265: the required groups that are not provided at all
AbsentGroups(st, a) ==
    LET absent == DOMAIN REQUIRED_MVS_PARAMETERS(a.ext) \ DOMAIN a.tree
    IN  CmpState(st.tree,
                 [mp \in (DOMAIN st.missing) \cup absent |->
                     IF mp \in absent
                     THEN BagAdd(EmptyDict, REQUIRED_MVS_PARAMETERS(a.ext)[mp])
                     ELSE st.missing[mp]],
                 st.extra, NoErr)

\* lines 279-308
warn_missing_parameters(st) ==
    IF DOMAIN st.missing # {}
    THEN CmpState(st.tree, st.missing, st.extra, "MissingParameterError")
    ELSE st

compare_input_parameters_with_reference(a) ==
    LET looped == CompareGroups(CmpState(a.tree, EmptyDict, EmptyDict, NoErr),
                                a, DOMAIN a.tree)
    IN  IF looped.err # NoErr THEN looped
        ELSE IF a.flag_missing THEN warn_missing_parameters(AbsentGroups(looped, a))
        ELSE AbsentGroups(looped, a)

(***************************************************************************)
(* Reconciliation: the arguments are drawn at Init, Compare makes the call.*)
(***************************************************************************)
GivenNode == ValueUnit(PyInt(1), "kW")

ParamBags(names) == {[n \in P |-> GivenNode] : P \in SUBSET names}

AssetMaps(keys, names) ==
    UNION {[K -> ParamBags(names)] : K \in (SUBSET keys) \ {{}}}

GroupChoices(ext, mp) ==
    IF mp \notin DOMAIN REQUIRED_MVS_PARAMETERS(ext)
    THEN {[k \in {"non-asset"} |-> [n \in {"foo"} |-> GivenNode]]}
    ELSE IF ext = CSV_EXT \/ mp \in NonAssetGroups
    THEN AssetMaps({"non-asset"}, REQUIRED_MVS_PARAMETERS(ext)[mp] \cup {"foo"})
    ELSE AssetMaps({"pv_1", "pv_2"}, REQUIRED_MVS_PARAMETERS(ext)[mp] \cup {"foo"})

CmpGroups == {"simulation_settings", "energyProduction", "foo_group"}

MakeTree(choice) ==
    [mp \in {g \in CmpGroups : choice[g] # Absent} |-> choice[mp]]

InitCmp ==
    /\ IdleCoerce
    /\ IdleLd
    /\ IdleRun
    /\ IdleFn
    /\ \E ext \in {JSON_EXT, CSV_EXT}, fm \in BOOLEAN, sd \in BOOLEAN :
         \E s \in GroupChoices(ext, "simulation_settings") \cup {Absent},
            e \in GroupChoices(ext, "energyProduction") \cup {Absent},
            f \in GroupChoices(ext, "foo_group") \cup {Absent} :
            cmpIn = [ext |-> ext, flag_missing |-> fm, set_default |-> sd,
                     tree |-> MakeTree([simulation_settings |-> s,
                                        energyProduction |-> e,
                                        foo_group |-> f])]
    /\ cmpOut = NotRun

Compare ==
    /\ cmpIn # NotRun
    /\ cmpOut = NotRun
    /\ cmpOut' = compare_input_parameters_with_reference(cmpIn)
    /\ UNCHANGED <<cmpIn, coerceVars, ldVars, runVars, fnVars>>

NextCmp == Compare

SpecCmp == InitCmp /\ [][NextCmp]_vars

(***************************************************************************)
(* What a call of the reconciliation reported.                             *)
(***************************************************************************)
CmpDone == cmpOut # NotRun

\* the groups whose sub parameters are compared with the reference
ComparedGroups == DOMAIN cmpIn.tree \cap DOMAIN REQUIRED_MVS_PARAMETERS(cmpIn.ext)

Required(mp) == REQUIRED_MVS_PARAMETERS(cmpIn.ext)[mp]
Provided(mp, k) == DOMAIN cmpIn.tree[mp][k]

ReportedMissing(mp) ==
    IF mp \in DOMAIN cmpOut.missing THEN DOMAIN cmpOut.missing[mp] ELSE {}
ReportedExtra(mp) ==
    IF mp \in DOMAIN cmpOut.extra THEN cmpOut.extra[mp] ELSE {}

\* the known extra parameters asset k of group mp requires and lacks
LackedKnownExtra(mp, k) ==
    (Required(mp) \ Provided(mp, k)) \cap DOMAIN KNOWN_EXTRA_PARAMETERS

\* C5 (as stated): with set_default=True, for either input kind, the call does
\* not fail on the filling, every required known extra parameter that an
\* asset (or non-asset group) lacks is inserted there with its documented unit
\* and default value, and it is not reported as missing.
C5_DefaultFilled ==
    (CmpDone /\ cmpIn.set_default) =>
        /\ cmpOut.err \in {NoErr, "MissingParameterError"}
        /\ \A mp \in ComparedGroups : \A k \in DOMAIN cmpIn.tree[mp] :
              \A sp \in LackedKnownExtra(mp, k) :
                 /\ sp \in DOMAIN cmpOut.tree[mp][k]
                 /\ cmpOut.tree[mp][k][sp] = DefaultEntry(sp)
                 /\ sp \notin ReportedMissing(mp)

\* C6 (as stated): whatever set_default and flag_missing are, a required known
\* extra parameter that an asset lacks is not flagged as missing and takes
\* its default value.
C6_KnownExtraNeverMissing ==
    CmpDone =>
        \A mp \in ComparedGroups : \A k \in DOMAIN cmpIn.tree[mp] :
           \A sp \in LackedKnownExtra(mp, k) :
              /\ sp \notin ReportedMissing(mp)
              /\ sp \in DOMAIN cmpOut.tree[mp][k]
              /\ cmpOut.tree[mp][k][sp] = DefaultEntry(sp)

(***************************************************************************)
(* Loading one table: the directory, the file name and the storage flag    *)
(* are drawn at Init, LoadTable makes the call.  A table is drawn by its   *)
(* asset columns, its rows (a sub-sequence of the rows the group knows)    *)
(* and the set of its null cells; every other cell holds the text the row  *)
(* usually holds.  The required list handed in for a group is the list of  *)
(* REQUIRED_CSV_PARAMETERS, as it is or as an earlier load has left it.    *)
(***************************************************************************)
UnitOf(row) ==
    IF row \in {"label", "storage_filename", "foo", "unit"} THEN "str" ELSE "kW"

TextOf(row) ==
    IF row = "label" THEN <<"x">>
    ELSE IF row = "storage_filename" THEN <<"storage_01", ".csv">>
    ELSE <<"1">>

SubSequences(q) == {SelectSeq(q, LAMBDA r : r \in S) : S \in SUBSET SeqSet(q)}

MakeTable(assets, rows, nulls) ==
    Table(<<"unit">> \o assets, rows,
          [i \in SeqSet(rows) |-> UnitOf(i)],
          [i \in SeqSet(rows) |->
              [c \in SeqSet(assets) |->
                  IF <<i, c>> \in nulls THEN PyNaN ELSE PyStr(TextOf(i))]])

Tables(layouts, knownRows) ==
    UNION {UNION {{MakeTable(assets, rows, nulls) :
                      nulls \in SUBSET (SeqSet(rows) \X SeqSet(assets))}
                  : rows \in SubSequences(knownRows)}
           : assets \in layouts}

FileOf(table, sep) ==
    [x \in SeqSet(CSV_SEPARATORS) |-> IF x = sep THEN table ELSE NoTable]

StorageLayouts ==
    {<<"storage capacity">>, <<"input power">>, <<"output power">>, <<"bad">>,
     <<"storage capacity", "input power">>, <<"input power", "storage capacity">>,
     <<"bad", "storage capacity">>, <<"storage capacity", "bad">>,
     <<"input power", "bad">>,
     <<"storage capacity", "input power", "output power">>}

StorageRows == <<"label", "capex_fix", "soc_min", "foo">>

GroupLayouts(g) ==
    IF g = "economic_data" THEN {<<>>, <<"economic_data">>, <<"col_1", "col_2">>}
    ELSE {<<>>, <<"pv_1">>, <<"pv_1", "pv_2">>}

GroupRows(g) == REQUIRED_CSV_PARAMETERS[g] \o <<"maximumCap", "foo">>

\* the list of a group as the module defines it, or as an earlier load of a
\* table with a maximumCap row has left it
ListsOf(g) == {REQUIRED_CSV_PARAMETERS[g],
               Append(REQUIRED_CSV_PARAMETERS[g], "maximumCap")}

\* the asset column that a file shows when it is split at separator x
ColumnBy(x) ==
    IF x = "," THEN "by_comma" ELSE IF x = ";" THEN "by_semicolon"
    ELSE "by_ampersand"

\* files that yield columns under the separators of `splits` and under no
\* other
SplitFiles ==
    {[x \in SeqSet(CSV_SEPARATORS) |->
         IF x \in splits
         THEN MakeTable(<<ColumnBy(x)>>, <<"label", "installedCap">>, {})
         ELSE NoTable] : splits \in SUBSET SeqSet(CSV_SEPARATORS)}

\* tables of two assets whose label row carries any unit tag, ahead of or
\* after the other row
LabelTexts == {PyStr(<<"pv">>), PyStr(<<"t">>), PyStr(<<"1">>)}

LabelTable(index, u, a, b) ==
    Table(<<"unit", "pv_1", "pv_2">>, index,
          [i \in SeqSet(index) |-> IF i = "label" THEN u ELSE "kW"],
          [i \in SeqSet(index) |->
              IF i = "label" THEN [c \in {"pv_1", "pv_2"} |->
                                      IF c = "pv_1" THEN a ELSE b]
              ELSE [c \in {"pv_1", "pv_2"} |-> PyStr(<<"1">>)]])

LabelTables ==
    {LabelTable(index, u, a, b) :
        index \in {<<"label", "installedCap">>, <<"installedCap", "label">>},
        u \in UnitTags, a \in LabelTexts, b \in LabelTexts}

LoadCall(dir, filename, parameters, storage) ==
    [dir |-> dir, filename |-> filename, parameters |-> parameters,
     storage |-> storage]

InitLoad ==
    /\ IdleCoerce
    /\ IdleCmp
    /\ IdleRun
    /\ IdleFn
    /\ \/ \E t \in Tables(StorageLayouts, StorageRows) \cup {NoTable} :
            ldIn = LoadCall([f \in {"storage_01"} |-> FileOf(t, ",")],
                            "storage_01", StorageParameters, TRUE)
       \/ \E g \in {"economic_data", "energyProduction"} :
            \E t \in Tables(GroupLayouts(g), GroupRows(g)) \cup {NoTable},
               l \in ListsOf(g) :
               ldIn = LoadCall([f \in {g} |-> FileOf(t, ",")], g, l, FALSE)
       \/ \E t \in LabelTables :
            ldIn = LoadCall([f \in {"energyProduction"} |-> FileOf(t, ",")],
                            "energyProduction",
                            REQUIRED_CSV_PARAMETERS["energyProduction"], FALSE)
       \/ \E file \in SplitFiles, g \in {"economic_data", "energyProduction"} :
            ldIn = LoadCall([f \in {g} |-> file], g,
                            REQUIRED_CSV_PARAMETERS[g], FALSE)
    /\ ldOut = NotRun

LoadTable ==
    /\ ldIn # NotRun
    /\ ldOut = NotRun
    /\ ldOut' = create_json_from_csv(ldIn.dir, ldIn.filename, ldIn.parameters,
                                      ldIn.storage)
    /\ UNCHANGED <<ldIn, coerceVars, cmpVars, runVars, fnVars>>

NextLoad == LoadTable

SpecLoad == InitLoad /\ [][NextLoad]_vars

(***************************************************************************)
(* create_input_json(input_directory).  The directory is drawn at Init     *)
(* from tables written out below; a process calls create_input_json up to  *)
(* MaxCalls times, and the artifact may be deleted between two calls.      *)
(* Call is lines 63-80, LoadFile one round of the loop of lines 81-99,     *)
(* Emit lines 101-128.                                                     *)
(***************************************************************************)
Row(name, unit, cells) == [name |-> name, unit |-> unit, cells |-> cells]

Txt(x) == PyStr(<<x>>)

TableOfRows(assets, rows) ==
    Table(<<"unit">> \o assets,
          [k \in 1..Len(rows) |-> rows[k].name],
          [i \in {rows[k].name : k \in 1..Len(rows)} |->
              (CHOOSE r \in SeqSet(rows) : r.name = i).unit],
          [i \in {rows[k].name : k \in 1..Len(rows)} |->
              [c \in SeqSet(assets) |->
                  (CHOOSE r \in SeqSet(rows) : r.name = i).cells[
                      CHOOSE k \in 1..Len(assets) : assets[k] = c]]])

EconomicTables ==
    {TableOfRows(<<"economic_data">>,
                 <<Row("label", "str", <<Txt("econ")>>),
                   Row("tax", "factor", <<Txt("1")>>)>>),
     \* an unresolved boolean literal
     TableOfRows(<<"economic_data">>,
                 <<Row("label", "str", <<Txt("econ")>>),
                   Row("tax", "bool", <<Txt("1")>>)>>),
     \* every cell of the table an integer: pandas reads the columns as
     \* int64, and row["unit"] is a numpy.int64, written here as the tag
     \* "int64"
     TableOfRows(<<"economic_data">>,
                 <<Row("tax", "int64", <<PyInt(2)>>)>>),
     \* the one asset column bears the name of another group
     TableOfRows(<<"energyProduction">>,
                 <<Row("label", "str", <<Txt("econ")>>),
                   Row("tax", "factor", <<Txt("1")>>)>>)}

ProductionTables ==
    {TableOfRows(<<"pv_1", "pv_2">>,
                 <<Row("label", "str", <<Txt("pv"), Txt("wind")>>),
                   Row("installedCap", "kW", <<Txt("1"), Txt("2")>>)>>),
     \* text that is no number under a numeric unit tag
     TableOfRows(<<"pv_1", "pv_2">>,
                 <<Row("label", "str", <<Txt("pv"), Txt("pv")>>),
                   Row("installedCap", "kW", <<Txt("t"), Txt("2")>>)>>),
     \* a missing parameter, an unknown one, and maximumCap
     TableOfRows(<<"pv_1">>,
                 <<Row("label", "str", <<Txt("pv")>>),
                   Row("maximumCap", "kW", <<Txt("None")>>),
                   Row("foo", "str", <<Txt("t")>>)>>),
     \* a list whose first sub-token has an opening brace only
     TableOfRows(<<"pv_1">>,
                 <<Row("label", "str", <<Txt("pv")>>),
                   Row("installedCap", "kW",
                       <<PyStr(<<"[", "{", ";", "1", "]">>)>>)>>),
     \* no candidate separator yields a column
     NoTable}

StorageRef(name) == PyStr(<<name, ".csv">>)

EnergyStorageTables ==
    {TableOfRows(<<"storage_01">>,
                 <<Row("label", "str", <<Txt("ess")>>),
                   Row("storage_filename", "str", <<StorageRef("storage_01")>>)>>),
     TableOfRows(<<"storage_01", "storage_02">>,
                 <<Row("label", "str", <<Txt("ess"), Txt("bat")>>),
                   Row("storage_filename", "str",
                       <<StorageRef("storage_01"), StorageRef("storage_02")>>)>>),
     \* a row that bears the name of a column of the sub-table
     TableOfRows(<<"storage_01">>,
                 <<Row("label", "str", <<Txt("ess")>>),
                   Row("storage capacity", "str", <<Txt("own")>>),
                   Row("storage_filename", "str", <<StorageRef("storage_01")>>)>>)}

StorageTable(assets) ==
    TableOfRows(assets,
                <<Row("label", "str", <<Txt("x"), Txt("x"), Txt("x")>>),
                  Row("capex_fix", "currency", <<Txt("1"), Txt("1"), Txt("1")>>),
                  Row("soc_min", "factor", <<Txt("1"), PyNaN, PyNaN>>)>>)

Storage01Tables ==
    {StorageTable(<<"storage capacity", "input power", "output power">>),
     \* a first column that is none of the three roles
     StorageTable(<<"bad", "input power", "output power">>)}

Storage02Tables ==
    {StorageTable(<<"storage capacity", "input power", "output power">>)}

MakeDir(choice) ==
    [f \in {g \in DOMAIN choice : choice[g] # Absent} |-> FileOf(choice[f], ",")]

Directories ==
    {MakeDir([economic_data |-> e, energyProduction |-> p, energyStorage |-> s,
              storage_01 |-> a, storage_02 |-> b, readme |-> r]) :
        e \in EconomicTables \cup {Absent},
        p \in ProductionTables \cup {Absent},
        s \in EnergyStorageTables \cup {Absent},
        a \in Storage01Tables \cup {Absent},
        b \in Storage02Tables \cup {Absent},
        r \in {NoTable, Absent}}

FileOrder == <<"economic_data", "energyProduction", "energyStorage",
               "readme", "storage_01", "storage_02">>

Reverse(q) == [k \in 1..Len(q) |-> q[Len(q) + 1 - k]]

\* os.listdir returns the files in an arbitrary order
Listings(d) ==
    LET sorted == SelectSeq(FileOrder, LAMBDA f : f \in DOMAIN d)
    IN  {sorted, Reverse(sorted)}

StaleArtifact == [k \in {"stale"} |-> PyNone]

InitRun ==
    /\ IdleFn
    /\ IdleCoerce
    /\ IdleCmp
    /\ IdleLd
    /\ input_directory \in Directories
    /\ listing \in Listings(input_directory)
    /\ artifact \in {Absent, StaleArtifact}
    /\ reqParams = REQUIRED_CSV_PARAMETERS
    /\ pc = "idle"
    /\ pending = <<>>
    /\ input_json = EmptyDict
    /\ runLog = {}
    /\ runErr = NoErr
    /\ runReads = <<>>
    /\ atCall = Absent
    /\ history = <<>>
    /\ written = <<>>

Calls == Cardinality({k \in 1..Len(history) : history[k] # "deleted"})

ArtifactExists_never(a) == FALSE

\* lines 67-69: os.path.exists(output_filename)
ArtifactExists(a) == a # Absent

\* lines 81-99: the loop over the files writes nothing at the destination,
\* whether a load raises or not; the file is opened at line 120 only
ArtifactAfterLoad_opened_first(a, state) ==
    IF state = "failed" THEN [t |-> "partial", of |-> a] ELSE a

ArtifactAfterLoad(a, state) == a

\* what json.dump accepts as a value: str, int, float, bool, None, and the
\* lists and dicts of these; a numpy.int64 is none of them
RECURSIVE LeafOk(_)
LeafOk(x) ==
    IF x.t = "vu" THEN x.unit # "int64" /\ LeafOk(x.value)
    ELSE IF x.t = "list" THEN \A k \in DOMAIN x.items : LeafOk(x.items[k])
    ELSE TRUE

RECURSIVE Serializable(_)
Serializable(x) ==
    IF "t" \in DOMAIN x THEN LeafOk(x)
    ELSE \A k \in DOMAIN x : Serializable(x[k])

\* what open(output_filename, "w") and json.dump leave in a file json.dump
\* has not written to the end
Partial == [t |-> "partial"]

\* lines 120-121: open(output_filename, "w") and json.dump(input_json,
\* outfile, skipkeys=True, sort_keys=True, indent=4).  The keys of the tree
\* are all str, so skipkeys skips nothing; with sorted keys and a fixed
\* indentation the text written is a function of the tree alone, which
\* stands for it here.  A value json.dump does not accept makes it raise
\* TypeError after the text before that value has been written.
json_dump(tree) == IF Serializable(tree) THEN tree ELSE Partial

\* lines 63-80
Call ==
    /\ pc \in {"idle", "done", "failed"}
    /\ Calls < MaxCalls
    /\ atCall' = artifact
    /\ runLog' = {}
    /\ runReads' = <<>>
    /\ input_json' = EmptyDict
    /\ IF ArtifactExists(artifact)
       THEN /\ pc' = "failed"
            /\ runErr' = "FileExistsError"
            /\ history' = Append(history, "FileExistsError")
            /\ pending' = <<>>
       ELSE /\ pc' = "loading"
            /\ runErr' = NoErr
            /\ history' = history
            /\ pending' = listing
    /\ UNCHANGED <<input_directory, listing, artifact, reqParams, written,
                   coerceVars, cmpVars, ldVars, fnVars>>

\* lines 85-89: the dict of one required file is merged into input_json;
\* an exception of create_json_from_csv ends the call
Merge(filename, r) ==
    /\ reqParams' = [reqParams EXCEPT ![filename] = r.params]
    /\ runLog' = runLog \cup r.diags
    /\ runReads' = runReads \o r.reads
    /\ IF r.err # NoErr
       THEN /\ pc' = "failed"
            /\ runErr' = r.err
            /\ history' = Append(history, r.err)
            /\ UNCHANGED input_json
       ELSE /\ input_json' = Update(input_json, r.ret)
            /\ UNCHANGED <<pc, runErr, history>>

\* lines 81-99, for the next file of the listing
LoadFile ==
    /\ pc = "loading"
    /\ pending # <<>>
    /\ IF Head(pending) \in REQUIRED_CSV_FILES
       THEN Merge(Head(pending),
                  create_json_from_csv(input_directory, Head(pending),
                                       reqParams[Head(pending)], FALSE))
       ELSE /\ runLog' = runLog \cup
                   (IF Head(pending) \in {"storage_01", "storage_02"} THEN {}
                    ELSE {Diag("file_not_recognized", Head(pending), "", "")})
            /\ UNCHANGED <<reqParams, runReads, pc, runErr, history, input_json>>
    /\ pending' = Tail(pending)
    /\ artifact' = ArtifactAfterLoad(artifact, pc')
    /\ UNCHANGED <<input_directory, listing, atCall, written, coerceVars,
                   cmpVars, ldVars, fnVars>>

\* lines 101-128
Emit ==
    /\ pc = "loading"
    /\ pending = <<>>
    /\ runLog' = runLog \cup
          {Diag("required_file_missing", f, "", "") :
              f \in REQUIRED_CSV_FILES \ SeqSet(listing)}
    /\ artifact' = json_dump(input_json)
    /\ IF Serializable(input_json)
       THEN /\ pc' = "done"
            /\ history' = Append(history, "done")
            /\ written' = Append(written, json_dump(input_json))
            /\ UNCHANGED runErr
       ELSE /\ pc' = "failed"
            /\ runErr' = "TypeError"
            /\ history' = Append(history, "DumpError")
            /\ UNCHANGED written
    /\ UNCHANGED <<input_directory, listing, reqParams, pending, input_json,
                   runReads, atCall, coerceVars, cmpVars, ldVars, fnVars>>

\* the user deletes the artifact between two calls
DeleteArtifact ==
    /\ pc \in {"idle", "done", "failed"}
    /\ ArtifactExists(artifact)
    /\ Calls < MaxCalls
    /\ artifact' = Absent
    /\ history' = Append(history, "deleted")
    /\ UNCHANGED <<input_directory, listing, reqParams, pc, pending, input_json,
                   runLog, runErr, runReads, atCall, written, coerceVars,
                   cmpVars, ldVars, fnVars>>

\* the directory lists its files in another order from now on
Relist ==
    /\ pc \in {"idle", "done", "failed"}
    /\ Calls < MaxCalls
    /\ listing' \in Listings(input_directory) \ {listing}
    /\ UNCHANGED <<input_directory, artifact, reqParams, pc, pending, input_json,
                   runLog, runErr, runReads, atCall, history, written,
                   coerceVars, cmpVars, ldVars, fnVars>>

Next == Call \/ LoadFile \/ Emit \/ DeleteArtifact \/ Relist

Spec == InitRun /\ [][Next]_vars

\* single loads and whole runs side by side
InitLoadRun == InitLoad \/ InitRun
NextLoadRun == LoadTable \/ Call \/ LoadFile \/ Emit \/ DeleteArtifact \/ Relist
SpecLoadRun == InitLoadRun /\ [][NextLoadRun]_vars

\* the two reconciliations side by side
InitReconcile == InitCmp \/ InitLoad
NextReconcile == Compare \/ LoadTable
SpecReconcile == InitReconcile /\ [][NextReconcile]_vars

(***************************************************************************)
(* What a load reported and returned.                                      *)
(***************************************************************************)
LdDone == ldOut # NotRun

LdTable == read_csv(ldIn.dir[ldIn.filename])

LdParsed == LdDone /\ Len(LdTable.cols) > 0

LdIndex == SeqSet(LdTable.index)

LdAssets == SeqSet(LdTable.cols) \ {"unit"}

\* the names a load logged under a kind of diagnostic, for a column
Logged(kind, column) ==
    {d.param : d \in {x \in ldOut.diags : x.kind = kind /\ x.column = column}}

\* the required set of a load: the list handed in, with maximumCap when the
\* index of the table holds it
EffectiveRequired ==
    SeqSet(ldIn.parameters) \cup ({"maximumCap"} \cap LdIndex)

C4_WitnessCompare ==
    /\ CmpDone /\ ~cmpIn.set_default
    /\ "energyProduction" \in DOMAIN cmpIn.tree
    /\ DOMAIN cmpIn.tree["energyProduction"] = {"pv_1"}
    /\ ReportedMissing("energyProduction") = {"maximumCap"}
    /\ ReportedExtra("energyProduction") = {"foo"}

(***************************************************************************)
(* Storage tables.                                                         *)
(***************************************************************************)
RoleNames == {"storage capacity", "input power", "output power"}

RoleSpecific(c) ==
    IF c = "storage capacity" THEN {"soc_initial", "soc_max", "soc_min"}
    ELSE {"c_rate", "opex_var"}

\* the effective set of a role: the common parameters and its own
EffectiveSet(c) == SeqSet(StorageParameters) \cup RoleSpecific(c)

LdRoles == LdAssets \cap RoleNames

WasNull(i, c) == IsNull(LdTable.cell[i][c])

\* None, NaN, or no entry at all
IsNullNode(node) ==
    \/ node.t \in {"none", "nan"}
    \/ node.t = "vu" /\ node.value.t \in {"none", "nan"}

HoldsZero(node) ==
    \/ node = PyInt(0)
    \/ node.t = "vu" /\ node.value = PyInt(0)

\* C8 (as stated): a parameter of the role's effective set that is absent or
\* holds a null cell is in the emitted record with a Null value, with a
\* diagnostic and without an error.
C8_NullLeftNull ==
    (LdParsed /\ ldIn.storage) =>
        \A c \in LdRoles : \A i \in EffectiveSet(c) :
           (i \notin LdIndex \/ WasNull(i, c)) =>
              /\ ldOut.err = NoErr
              /\ i \in DOMAIN ldOut.ret[c]
              /\ IsNullNode(ldOut.ret[c][i])
              /\ i \in Logged("missing", c) \cup Logged("set_to_zero", c)

\* C8 (amended): for a parameter of the role's effective set, an absent row
\* gives a diagnostic and no entry in the emitted record; a null cell gives a
\* diagnostic and the number 0 as the value in the emitted record.  No error
\* is raised on that account, except for a null label cell: the 0 put in its
\* place makes the load raise.
C8_ZeroSubstituted ==
    (LdParsed /\ ldIn.storage) =>
        /\ \A c \in LdRoles : \A i \in EffectiveSet(c) :
              /\ (i \notin LdIndex /\ ldOut.err = NoErr) =>
                    /\ i \in Logged("missing", c)
                    /\ i \notin DOMAIN ldOut.ret[c]
              /\ (i \in LdIndex /\ WasNull(i, c) /\ ldOut.err = NoErr) =>
                    /\ i \in Logged("set_to_zero", c)
                    /\ i \in DOMAIN ldOut.ret[c]
                    /\ HoldsZero(ldOut.ret[c][i])
              /\ (i = "label" /\ i \in LdIndex /\ WasNull(i, c)) =>
                    ldOut.err # NoErr
        /\ (/\ LdAssets \subseteq RoleNames
            /\ \A c \in LdAssets : "label" \in LdIndex => ~WasNull("label", c))
              => ldOut.err = NoErr

\* a capacity column with a null soc_min and without a capex_fix row was
\* loaded
C8_Witness ==
    /\ LdParsed /\ ldIn.storage /\ ldOut.err = NoErr
    /\ "storage capacity" \in LdRoles
    /\ "soc_min" \in LdIndex /\ WasNull("soc_min", "storage capacity")
    /\ HoldsZero(ldOut.ret["storage capacity"]["soc_min"])
    /\ "capex_fix" \notin LdIndex
    /\ "capex_fix" \in Logged("missing", "storage capacity")

StorageWarnings(c) ==
    Logged("storage_not_recognized", c) \cup Logged("should_be_nan", c)

\* C9 (as stated): a row parameter outside the role's effective set has no
\* value other than Null in the emitted record, whatever the cell held, and a
\* warning is logged exactly when the cell held a value.
C9_ForcedToNull ==
    (LdParsed /\ ldIn.storage /\ ldOut.err = NoErr) =>
        \A c \in LdRoles : \A i \in LdIndex \ EffectiveSet(c) :
           /\ i \in DOMAIN ldOut.ret[c] => IsNullNode(ldOut.ret[c][i])
           /\ i \in StorageWarnings(c) <=> ~WasNull(i, c)

(***************************************************************************)
(* The shape of the returned dict.                                         *)
(***************************************************************************)
\* C10 (as stated): for a single-dict group the returned mapping is keyed by
\* parameter names, with no table column name wrapping them; for every other
\* table that is no storage table it is {group: {asset column: record}}.
C10_InnerMappingReturned ==
    (LdParsed /\ ~ldIn.storage /\ ldOut.err = NoErr) =>
        IF ldIn.filename \in SingleDictFiles
        THEN /\ DOMAIN ldOut.ret \subseteq LdIndex
             /\ DOMAIN ldOut.ret \cap LdAssets = {}
        ELSE /\ DOMAIN ldOut.ret = {ldIn.filename}
             /\ DOMAIN ldOut.ret[ldIn.filename] = LdAssets

\* C10 (amended): for a single-dict group the returned mapping has no group
\* name wrapper but is keyed by the asset columns of the table, each mapped
\* to its record of parameters; for every other table that is no storage
\* table it is {group: {asset column: record}}.
C10_ColumnsReturned ==
    (LdParsed /\ ~ldIn.storage /\ ldOut.err = NoErr) =>
        IF ldIn.filename \in SingleDictFiles
        THEN /\ DOMAIN ldOut.ret = LdAssets
             /\ \A c \in LdAssets : DOMAIN ldOut.ret[c] \subseteq LdIndex
        ELSE /\ DOMAIN ldOut.ret = {ldIn.filename}
             /\ DOMAIN ldOut.ret[ldIn.filename] = LdAssets
             /\ \A c \in LdAssets :
                   DOMAIN ldOut.ret[ldIn.filename][c] \subseteq LdIndex

\* the economic_data table with the two columns col_1 and col_2 was loaded
C10_Witness ==
    /\ LdParsed /\ ldOut.err = NoErr
    /\ ldIn.filename = "economic_data"
    /\ LdAssets = {"col_1", "col_2"}
    /\ DOMAIN ldOut.ret = {"col_1", "col_2"}
    /\ "tax" \in DOMAIN ldOut.ret["col_1"]

(***************************************************************************)
(* Claims about a whole run of create_input_json.                          *)
(***************************************************************************)
Ended == pc \in {"done", "failed"}

LastEvent == IF history = <<>> THEN "none" ELSE history[Len(history)]

\* C1: a call that finds the artifact fails with FileExistsError, having read
\* no table and with the artifact as it found it; and the call that follows a
\* completed one, the artifact not deleted in between, fails in this way.
C1_CollisionFailsFirst ==
    /\ (pc # "idle" /\ atCall # Absent) =>
          /\ pc = "failed"
          /\ runErr = "FileExistsError"
          /\ runReads = <<>>
          /\ input_json = EmptyDict
          /\ (LastEvent = "FileExistsError" => artifact = atCall)
    /\ \A k \in 1..(Len(history) - 1) :
          history[k] = "done" => history[k + 1] \in {"FileExistsError", "deleted"}

\* a second call right after a completed one has failed on the artifact
C1_Witness ==
    /\ pc = "failed"
    /\ runErr = "FileExistsError"
    /\ Len(history) >= 2
    /\ history[Len(history) - 1] = "done"
    /\ LastEvent = "FileExistsError"
    /\ artifact = atCall
    /\ DOMAIN artifact # {}

ReadFiles(d) == {f \in DOMAIN d : f # "readme"}

Parseable(d) == \A f \in ReadFiles(d) : Len(read_csv(d[f]).cols) > 0

ReferencedStorage(d) ==
    IF "energyStorage" \notin DOMAIN d THEN {}
    ELSE LET df == read_csv(d["energyStorage"])
         IN  IF "storage_filename" \notin SeqSet(df.index) THEN {}
             ELSE {StripExtension(df.cell["storage_filename"][c].s)[1] :
                      c \in SeqSet(df.cols) \ {"unit"}}

StoragePresent(d) == ReferencedStorage(d) \subseteq DOMAIN d

\* C2: a call that finds no artifact, every table parseable and every
\* referenced storage sub-table present, completes and writes the artifact
\* whatever the cells hold.
C2_OnlyHardFailures ==
    (Ended /\ atCall = Absent /\ Parseable(input_directory)
           /\ StoragePresent(input_directory)) =>
        (pc = "done" /\ runErr = NoErr /\ LastEvent \in {"done", "deleted"})

MissingStorageLogged == \E g \in runLog : g.kind = "storage_file_missing"

\* C7: a call that met a reference to a storage sub-table that does not exist
\* still completes, having read every required table of the directory and
\* emitted the group energyStorage.
C7_MissingStorageConfined ==
    (Ended /\ MissingStorageLogged) =>
        /\ pc = "done"
        /\ runErr = NoErr
        /\ (REQUIRED_CSV_FILES \cap SeqSet(listing)) \subseteq
              {x[1] : x \in SeqSet(runReads)}
        /\ (LastEvent = "done" => "energyStorage" \in DOMAIN artifact)

(***************************************************************************)
(* The storage sub-tables in the emitted tree.                             *)
(***************************************************************************)
RunTable(f) == read_csv(input_directory[f])

AssetColumns(df) == SeqSet(df.cols) \ {"unit"}

\* the sub-table an asset column of energyStorage refers to
SubTableOf(c) ==
    StripExtension(RunTable("energyStorage").cell["storage_filename"][c].s)[1]

EmittedStorage ==
    /\ pc = "done"
    /\ LastEvent = "done"
    /\ "energyStorage" \in DOMAIN input_directory

\* C11: in the emitted tree the record of an asset column of energyStorage
\* whose sub-table exists holds the keys of the column's own rows and one key
\* for every column of the sub-table; the sub-table was assembled with the
\* storage schema: not wrapped under its file name, and a role-specific
\* parameter of another role that is null has no entry.
C11_StorageMerged ==
    EmittedStorage =>
        \A c \in AssetColumns(RunTable("energyStorage")) :
           LET rec == artifact["energyStorage"][c]
               sub == RunTable(SubTableOf(c))
           IN  /\ SeqSet(RunTable("energyStorage").index) \subseteq DOMAIN rec
               /\ AssetColumns(sub) \subseteq DOMAIN rec
               /\ DOMAIN rec =
                     SeqSet(RunTable("energyStorage").index) \cup AssetColumns(sub)
               /\ SubTableOf(c) \notin DOMAIN rec
               /\ \A r \in AssetColumns(sub) :
                     /\ "capex_fix" \in DOMAIN rec[r]
                     /\ "soc_min" \in DOMAIN rec[r] <=> r = "storage capacity"

\* a tree with two storage assets, each with its sub-table, was emitted
C11_Witness ==
    /\ EmittedStorage
    /\ AssetColumns(RunTable("energyStorage")) = {"storage_01", "storage_02"}
    /\ "input power" \in DOMAIN artifact["energyStorage"]["storage_02"]
    /\ "label" \in DOMAIN artifact["energyStorage"]["storage_01"]

(***************************************************************************)
(* The shared lists of required parameters.                                *)
(***************************************************************************)
\* C12: whatever tables the calls of create_json_from_csv have loaded, the
\* shared lists REQUIRED_CSV_PARAMETERS[group] hold what they held at first.
C12_RequiredUnchanged == pc # "off" => reqParams = REQUIRED_CSV_PARAMETERS

(***************************************************************************)
(* The separator of a table.                                               *)
(***************************************************************************)
LdFile == ldIn.dir[ldIn.filename]

\* the positions in CSV_SEPARATORS at which the file yields a column
Splitting == {k \in 1..Len(CSV_SEPARATORS) : Len(LdFile[CSV_SEPARATORS[k]].cols) > 0}

FirstSplitting == CHOOSE k \in Splitting : \A m \in Splitting : k <= m

\* the asset columns that the returned dict holds
ReturnedAssets ==
    IF ldIn.storage \/ ldIn.filename \in SingleDictFiles
    THEN DOMAIN ldOut.ret
    ELSE DOMAIN ldOut.ret[ldIn.filename]

\* C13: a load reads the file with the separators of CSV_SEPARATORS in their
\* order, up to the first that yields a column and no further, and builds
\* the dict from that parse; when none yields a column it has tried them
\* all, raises ValueError and returns nothing.
C13_FirstSeparatorWins ==
    LdDone =>
        IF Splitting = {}
        THEN /\ ldOut.err = "ValueError"
             /\ ldOut.ret = NotRun
             /\ ldOut.reads = [k \in 1..Len(CSV_SEPARATORS) |->
                                  <<ldIn.filename, CSV_SEPARATORS[k]>>]
        ELSE /\ ldOut.reads = [k \in 1..FirstSplitting |->
                                  <<ldIn.filename, CSV_SEPARATORS[k]>>]
             /\ ldOut.err = NoErr =>
                   ReturnedAssets =
                       SeqSet(LdFile[CSV_SEPARATORS[FirstSplitting]].cols) \ {"unit"}

\* a file that yields no column at "," and one at ";" and at "&" was loaded
C13_Witness ==
    /\ LdDone /\ ldOut.err = NoErr
    /\ Splitting = {2, 3}
    /\ Len(ldOut.reads) = 2
    /\ ReturnedAssets = {"by_semicolon"}

\* a file that yields no column at any separator was loaded
C13_WitnessNone ==
    /\ LdDone /\ Splitting = {}
    /\ ldOut.err = "ValueError"
    /\ Len(ldOut.reads) = Len(CSV_SEPARATORS)

(***************************************************************************)
(* Malformed cells.                                                        *)
(***************************************************************************)
Coerced == cellOut # NotRun

LoneBracket(c) == IsStr(c) /\ (Has(c.s, "[") # Has(c.s, "]"))

LoneBrace(c) == IsStr(c) /\ (Has(c.s, "{") # Has(c.s, "}"))

\* C14: a cell with exactly one of the two brackets gives, under every unit
\* tag, a diagnostic and the unchanged cell text as a raw string under the
\* parameter's name, and no exception.
C14_LoneBracketRaw ==
    (Coerced /\ LoneBracket(rawCell)) =>
        /\ cellOut.err = NoErr
        /\ "bracket_missing" \in cellOut.diags
        /\ "p" \in DOMAIN cellOut.dict
        /\ cellOut.dict["p"] = rawCell

IsListCell(c) == IsStr(c) /\ Has(c.s, "[") /\ Has(c.s, "]")

\* C15: a cell with exactly one of the two braces, or a list cell with such
\* a sub-token, gives a diagnostic and no exception; the parameter has a
\* value, which holds the unchanged text as a raw string (for a sub-token, as
\* its item of the list).
C15_LoneBraceRaw ==
    /\ (Coerced /\ LoneBrace(rawCell) /\ ~HasBracket(rawCell)) =>
          /\ cellOut.err = NoErr
          /\ "brace_missing" \in cellOut.diags
          /\ "p" \in DOMAIN cellOut.dict
          /\ cellOut.dict["p"] = rawCell
    /\ (Coerced /\ IsListCell(rawCell)) =>
          \A k \in 1..Len(Tokens(rawCell.s)) :
             LoneBrace(Tokens(rawCell.s)[k]) =>
                /\ cellOut.err = NoErr
                /\ "brace_missing" \in cellOut.diags
                /\ "p" \in DOMAIN cellOut.dict
                /\ ListItems(cellOut.dict["p"])[k] = Tokens(rawCell.s)[k]

(***************************************************************************)
(* Cells without brackets and braces.                                      *)
(***************************************************************************)
PlainText(c) == IsStr(c) /\ ~HasBracket(c) /\ ~HasBrace(c)

C16_WitnessFalse ==
    /\ Coerced /\ unitTag = "bool"
    /\ rawCell = PyStr(<<"F">>)
    /\ cellOut.dict["p"] = ValueUnit(PyBool(FALSE), "bool")

(***************************************************************************)
(* List cells.                                                             *)
(***************************************************************************)
\* what conversion() makes of sub-token k of the cell, taken alone
Alone(k) == conversion(EmptyDict, unitTag, "p", Tokens(rawCell.s)[k])

AloneValue(k) ==
    IF unitTag # "str" /\ HasKeyValue(Alone(k).dict["p"])
    THEN Alone(k).dict["p"].value
    ELSE Alone(k).dict["p"]

\* C17: the list made of a cell with both brackets has one item per
\* sub-token, in their order; item k is the value that sub-token k gives
\* when coerced alone under the unit tag of the row, never the value of
\* another sub-token; the list carries the unit unless the tag is "str".
C17_ItemsCoercedAlone ==
    (Produced /\ IsListCell(rawCell)) =>
        /\ Len(ListItems(cellOut.dict["p"])) = Len(Tokens(rawCell.s))
        /\ (unitTag # "str" =>
               cellOut.dict["p"].t = "vu" /\ cellOut.dict["p"].unit = unitTag)
        /\ (unitTag = "str" => cellOut.dict["p"].t = "list")
        /\ \A k \in 1..Len(Tokens(rawCell.s)) :
              /\ "p" \in DOMAIN Alone(k).dict
              /\ ListItems(cellOut.dict["p"])[k] = AloneValue(k)

(***************************************************************************)
(* Numeric cells.                                                          *)
(***************************************************************************)
NumericTag == unitTag \notin {"str", "bool"}

C18_WitnessInteger ==
    /\ Coerced /\ unitTag = "kW"
    /\ \/ /\ rawCell = PyStr(<<"1", "2">>)
          /\ cellOut.dict["p"] = ValueUnit(PyInt(12), "kW")
       \/ /\ rawCell = PyStr(<<"None">>)
          /\ cellOut.dict["p"] = ValueUnit(PyNone, "kW")

(***************************************************************************)
(* The label row.                                                          *)
(***************************************************************************)
\* the record of an asset column in the returned dict
LdRecord(c) ==
    IF ldIn.storage \/ ldIn.filename \in SingleDictFiles
    THEN ldOut.ret[c]
    ELSE ldOut.ret[ldIn.filename][c]

TextLabels ==
    /\ "label" \in LdIndex
    /\ \A c \in LdAssets : IsStr(LdTable.cell["label"][c])

\* C19: whatever unit tag the label row carries, the load raises nothing on
\* its account and every asset record holds the label cell as a raw string.
C19_LabelAlwaysRaw ==
    (LdParsed /\ ~ldIn.storage /\ TextLabels /\ LdAssets # {}) =>
        /\ ldOut.err = NoErr
        /\ \A c \in LdAssets : LdRecord(c)["label"] = LdTable.cell["label"][c]

(***************************************************************************)
(* The summary of the assets of a table.                                   *)
(***************************************************************************)
AssetSeq(df) == SelectSeq(df.cols, LAMBDA c : c # "unit")

\* the label cells of the asset columns of a table, from left to right
LabelsOf(df) ==
    IF "label" \in SeqSet(df.index)
    THEN [k \in 1..Len(AssetSeq(df)) |-> df.cell["label"][AssetSeq(df)[k]].s]
    ELSE <<>>

Summaries(log) == {g \in log : g.kind = "assets_added"}

\* C20: a load that completes logs one summary for its table, which lists
\* the label of every asset column of that table once, from left to right;
\* a load that raises logs none.  In a run every summary lists the labels of
\* its own table only, also that of energyStorage, whose sub-tables are
\* loaded between its columns.
C20_SummaryInColumnOrder ==
    /\ LdDone =>
          Summaries(ldOut.diags) =
              IF ldOut.err = NoErr
              THEN {Summary(ldIn.filename, LabelsOf(LdTable))}
              ELSE {}
    /\ pc # "off" =>
          /\ \A g \in Summaries(runLog) :
                g = Summary(g.file, LabelsOf(RunTable(g.file)))
          /\ pc = "done" =>
                \A f \in REQUIRED_CSV_FILES \cap SeqSet(listing) :
                   Summary(f, LabelsOf(RunTable(f))) \in runLog

\* a run has loaded energyStorage with two assets and their sub-tables
C20_Witness ==
    /\ pc = "done"
    /\ Summary("energyStorage", <<<<"ess">>, <<"bat">>>>) \in runLog
    /\ Summary("storage_01", <<<<"x">>, <<"x">>, <<"x">>>>) \in runLog
    /\ Summary("storage_02", <<<<"x">>, <<"x">>, <<"x">>>>) \in runLog

\* a table whose label row comes last and holds t and pv was loaded
C20_WitnessLoad ==
    /\ LdDone /\ ldOut.err = NoErr
    /\ LdTable.index = <<"installedCap", "label">>
    /\ Summary("energyProduction", <<<<"t">>, <<"pv">>>>) \in ldOut.diags

(***************************************************************************)
(* Asset columns without a value.                                          *)
(***************************************************************************)
\* the asset columns of the loaded table whose every cell is missing
AllMissing == {c \in LdAssets : \A i \in LdIndex : WasNull(i, c)}

\* C21: a load of a table with an asset column whose cells are all missing
\* raises nothing, returns no entry for that column, logs a diagnostic that
\* names the column, and returns an entry for every other column.
C21_AllMissingSkipped ==
    (LdParsed /\ LdIndex # {} /\ AllMissing # {}) =>
        /\ ldOut.err = NoErr
        /\ \A c \in AllMissing :
              /\ c \notin ReturnedAssets
              /\ \E g \in ldOut.diags : g.column = c
        /\ LdAssets \ AllMissing \subseteq ReturnedAssets

(***************************************************************************)
(* The emission of the tree.                                               *)
(***************************************************************************)
\* the call has reached line 120 and gone through it
Dumped == pc # "off" /\ LastEvent \in {"done", "DumpError"}

\* C22: a call that reaches the emission completes whatever values the tree
\* holds: the artifact is written whole, it holds every entry of the tree
\* that can be serialized, and a value that cannot is left out with a
\* diagnostic.
C22_UnserializableDropped ==
    Dumped =>
        /\ pc = "done"
        /\ runErr = NoErr
        /\ artifact # Partial
        /\ ~Serializable(input_json) =>
              \E g \in runLog : g.kind = "not_serializable"

(***************************************************************************)
(* When the artifact is written.                                           *)
(***************************************************************************)
LoadErrors ==
    {"ValueError", "TypeError", "KeyError", "JSONDecodeError",
     "UnboundLocalError"}

\* the files a call has read so far
FilesRead == {x[1] : x \in SeqSet(runReads)}

\* the calls that completed
Completed == {k \in 1..Len(history) : history[k] = "done"}

\* C23: a call writes nothing while it loads; a call that completes has
\* visited every file of the listing, has read every required table of the
\* directory and every storage sub-table energyStorage refers to, and has
\* written the assembled tree, once; a call that aborts while it loads
\* leaves no artifact, and the call that follows it is not rejected by the
\* test for the artifact.
C23_WrittenOnceAtEnd ==
    pc # "off" =>
        /\ pc = "loading" => artifact = Absent
        /\ Len(written) = Cardinality(Completed)
        /\ (pc = "done" /\ LastEvent = "done") =>
              /\ pending = <<>>
              /\ artifact = input_json
              /\ written[Len(written)] = input_json
              /\ (REQUIRED_CSV_FILES \cap SeqSet(listing)) \subseteq FilesRead
              /\ ReferencedStorage(input_directory) \subseteq FilesRead
        /\ (pc = "failed" /\ LastEvent \in LoadErrors) => artifact = Absent
        /\ \A k \in 1..(Len(history) - 1) :
              history[k] \in LoadErrors => history[k + 1] # "FileExistsError"

\* a call has aborted on a table no separator splits, and so has the call
\* that followed it
C23_Witness ==
    /\ pc = "failed"
    /\ history = <<"ValueError", "ValueError">>
    /\ runReads # <<>>
    /\ artifact = Absent

\* a call has completed on a directory with energyStorage and a sub-table
C23_WitnessWritten ==
    /\ pc = "done" /\ LastEvent = "done"
    /\ "storage_01" \in FilesRead
    /\ written = <<artifact>>

(***************************************************************************)
(* Runs on the same tables.                                                *)
(***************************************************************************)
\* C24: the calls of one process on a directory whose tables stay as they
\* are write the same artifact each time they complete, whatever the order
\* of the listing at each call and whatever the earlier calls have left in
\* the shared lists of required parameters.
C24_SameArtifactEachRun ==
    \A j \in DOMAIN written : \A k \in DOMAIN written : written[j] = written[k]

(***************************************************************************)
(* The parameters that reach the returned dict.                            *)
(***************************************************************************)
\* C25: in the dict a load of a table that is no storage table returns,
\* the keys of every asset record are among the required parameters of the
\* group (with maximumCap when the table holds it); a row whose name is not
\* among them is reported as not recognized and is in no record.
C25_OnlyRequiredTransferred ==
    (LdParsed /\ ~ldIn.storage /\ ldOut.err = NoErr) =>
        /\ \A c \in LdAssets : DOMAIN LdRecord(c) \subseteq EffectiveRequired
        /\ \A i \in LdIndex \ EffectiveRequired :
              /\ i \in Logged("not_recognized", "")
              /\ \A c \in LdAssets : i \notin DOMAIN LdRecord(c)

(***************************************************************************)
(* set_nested_value, get_nested_value and split_nested_path of utils.      *)
(* A dict is a function on its keys, a leaf a tagged record; the `keys`    *)
(* argument is a tuple, a list or a str.  An outcome holds the answer and  *)
(* the exception; that of set_nested_value also holds `dct` as the call    *)
(* leaves it.                                                              *)
(***************************************************************************)
MaxDepth == 2

PyTuple(q) == [t |-> "tuple", items |-> q]

IsTuple(x) == x.t = "tuple"

IsLeaf(x) == "t" \in DOMAIN x

Got(answer, err) == [answer |-> answer, err |-> err]

SetTo(answer, dct, err) == [answer |-> answer, dct |-> dct, err |-> err]

\* dct[key]: the exception it raises, if any
ItemError(dct, key) ==
    IF IsLeaf(dct) THEN "TypeError"
    ELSE IF key \notin DOMAIN dct THEN "KeyError"
    ELSE NoErr

\* lines 348-379
RECURSIVE get_nested_value(_, _)
get_nested_value(dct, keys) ==
    IF ~IsTuple(keys) THEN Got(NotRun, "TypeError")
    ELSE IF Len(keys.items) > 1 THEN
        IF ItemError(dct, keys.items[1]) # NoErr
        THEN Got(NotRun, ItemError(dct, keys.items[1]))
        ELSE get_nested_value(dct[keys.items[1]], PyTuple(Tail(keys.items)))
    ELSE IF Len(keys.items) = 1 THEN
        IF ItemError(dct, keys.items[1]) # NoErr
        THEN Got(NotRun, ItemError(dct, keys.items[1]))
        ELSE Got(dct[keys.items[1]], NoErr)
    ELSE Got(NotRun, "ValueError")

\* an object handed out as another one's copy: `shared` tells whether an
\* assignment to an item of the one shows in the other
deepcopy_same_object(x) == [obj |-> x, shared |-> TRUE]

\* line 334: copy.deepcopy(dct)
deepcopy(x) == [obj |-> x, shared |-> FALSE]

\* answer[key] = item, where answer was got from dct by `copied`
StoreItem(copied, dct, key, item) ==
    IF IsLeaf(copied.obj) THEN SetTo(NotRun, dct, "TypeError")
    ELSE SetTo(Put(IF copied.shared THEN dct ELSE copied.obj, key, item),
               IF copied.shared THEN Put(dct, key, item) ELSE dct,
               NoErr)

\* lines 311-345
RECURSIVE set_nested_value(_, _, _)
RECURSIVE SetBelow(_, _, _, _)

\* line 336, once set_nested_value(dct[keys[0]], value, keys[1:]) is back
SetBelow(dct, keys, copied, below) ==
    IF below.err # NoErr
    THEN SetTo(NotRun, Put(dct, keys.items[1], below.dct), below.err)
    ELSE StoreItem(copied, Put(dct, keys.items[1], below.dct),
                   keys.items[1], below.answer)

set_nested_value(dct, value, keys) ==
    IF ~IsTuple(keys) THEN SetTo(NotRun, dct, "TypeError")
    ELSE IF Len(keys.items) > 1 THEN
        IF ItemError(dct, keys.items[1]) # NoErr
        THEN SetTo(NotRun, dct, ItemError(dct, keys.items[1]))
        ELSE SetBelow(dct, keys, deepcopy(dct),
                      set_nested_value(dct[keys.items[1]], value,
                                       PyTuple(Tail(keys.items))))
    ELSE IF Len(keys.items) = 1 THEN
        StoreItem(deepcopy(dct), dct, keys.items[1], value)
    ELSE SetTo(NotRun, dct, "ValueError")

\* line 397
SEPARATORS == <<".", ",">>

\* lines 382-418; without a separator in a str path keys_list stays None and
\* tuple(None) raises TypeError
split_nested_path(path) ==
    IF IsStr(path) THEN
        LET found == SelectSeq(SEPARATORS, LAMBDA x : Has(path.s, x))
        IN  IF Len(found) > 1 THEN Got(NotRun, "ValueError")
            ELSE IF Len(found) = 1
            THEN Got(PyTuple(Split(path.s, found[1])), NoErr)
            ELSE Got(NotRun, "TypeError")
    ELSE IF IsTuple(path) THEN Got(path, NoErr)
    ELSE Got(NotRun, "TypeError")

(***************************************************************************)
(* Calls of the three functions.  The dicts are nested MaxDepth deep at    *)
(* most, the tuples of keys one longer at most; a path is a text of up to  *)
(* MaxLen chunks, a tuple, or a value of another type.                     *)
(***************************************************************************)
NestedKeys == {"a", "b"}

Leaves == {PyInt(1)}

RECURSIVE NestedDicts(_)
NestedDicts(n) ==
    IF n = 0 THEN {}
    ELSE UNION {[S -> Leaves \cup NestedDicts(n - 1)] : S \in SUBSET NestedKeys}

KeySeqs(n) == UNION {[1..m -> NestedKeys] : m \in 0..n}

KeysArguments ==
    {PyTuple(q) : q \in KeySeqs(MaxDepth + 1)}
    \cup {PyList(<<"a">>), PyList(<<>>), PyStr(<<"a">>)}

NewValues == {PyInt(7), [k \in {"a"} |-> PyInt(7)]}

PathChunks == {"a", "b", ".", ","}

PathArguments ==
    {PyStr(q) : q \in UNION {[1..m -> PathChunks] : m \in 0..MaxLen}}
    \cup {PyTuple(q) : q \in KeySeqs(MaxDepth)}
    \cup {PyList(<<"a", "b">>), PyInt(1), PyNone}

InitNested ==
    /\ IdleCoerce
    /\ IdleCmp
    /\ IdleLd
    /\ IdleRun
    /\ \E d \in NestedDicts(MaxDepth), v \in NewValues, k \in KeysArguments :
          fnIn = [fn |-> "nested", dct |-> d, value |-> v, keys |-> k]
    /\ fnOut = NotRun

\* answer = set_nested_value(dct, value, keys)
SetNestedValue ==
    /\ fnIn # NotRun /\ fnIn.fn = "nested"
    /\ fnOut = NotRun
    /\ fnOut' = [set |-> set_nested_value(fnIn.dct, fnIn.value, fnIn.keys),
                 get |-> NotRun]
    /\ UNCHANGED <<fnIn, coerceVars, cmpVars, ldVars, runVars>>

\* get_nested_value(answer, keys), or get_nested_value(dct, keys) when the
\* call before has raised
GetNestedValue ==
    /\ fnIn # NotRun /\ fnIn.fn = "nested"
    /\ fnOut # NotRun /\ fnOut.get = NotRun
    /\ fnOut' = [fnOut EXCEPT !.get =
                    get_nested_value(IF fnOut.set.err = NoErr
                                     THEN fnOut.set.answer ELSE fnOut.set.dct,
                                     fnIn.keys)]
    /\ UNCHANGED <<fnIn, coerceVars, cmpVars, ldVars, runVars>>

NextNested == SetNestedValue \/ GetNestedValue

SpecNested == InitNested /\ [][NextNested]_vars

InitPath ==
    /\ IdleCoerce
    /\ IdleCmp
    /\ IdleLd
    /\ IdleRun
    /\ \E p \in PathArguments : fnIn = [fn |-> "split", path |-> p]
    /\ fnOut = NotRun

SplitNestedPath ==
    /\ fnIn # NotRun /\ fnIn.fn = "split"
    /\ fnOut = NotRun
    /\ fnOut' = split_nested_path(fnIn.path)
    /\ UNCHANGED <<fnIn, coerceVars, cmpVars, ldVars, runVars>>

NextPath == SplitNestedPath

SpecPath == InitPath /\ [][NextPath]_vars

(***************************************************************************)
(* Setting and getting a nested value.                                     *)
(***************************************************************************)
NestedDone == fnIn # NotRun /\ fnIn.fn = "nested" /\ fnOut # NotRun

BothDone == NestedDone /\ fnOut.get # NotRun

\* the tuple of keys leads to a value in the dict
ValidPath(d, q) == q # <<>> /\ get_nested_value(d, PyTuple(q)).err = NoErr

IsPrefix(p, q) == Len(p) <= Len(q) /\ SubSeq(q, 1, Len(p)) = p

\* the key paths that the assignment at path q does not concern
OtherPaths(q) ==
    {p \in KeySeqs(MaxDepth + 1) : p # <<>> /\ ~IsPrefix(p, q) /\ ~IsPrefix(q, p)}

\* C26: for a non-empty tuple of keys that is a valid path in d,
\* set_nested_value returns a dict in which the path leads to the value and
\* every other key path leads to what it leads to in d, and it leaves d as
\* it was; with an empty tuple both functions raise ValueError, with keys
\* that are no tuple both raise TypeError.
C26_SetThenGet ==
    /\ (NestedDone /\ IsTuple(fnIn.keys) /\ ValidPath(fnIn.dct, fnIn.keys.items)) =>
          /\ fnOut.set.err = NoErr
          /\ fnOut.set.dct = fnIn.dct
          /\ \A p \in OtherPaths(fnIn.keys.items) :
                get_nested_value(fnOut.set.answer, PyTuple(p)) =
                    get_nested_value(fnIn.dct, PyTuple(p))
          /\ BothDone => fnOut.get = Got(fnIn.value, NoErr)
    /\ (NestedDone /\ fnIn.keys = PyTuple(<<>>)) =>
          /\ fnOut.set.err = "ValueError"
          /\ BothDone => fnOut.get.err = "ValueError"
    /\ (NestedDone /\ ~IsTuple(fnIn.keys)) =>
          /\ fnOut.set.err = "TypeError"
          /\ BothDone => fnOut.get.err = "TypeError"

\* the dict {a: {a: 1, b: 1}, b: 1} was given the dict {a: 7} at (a, b), and
\* the value was read back
C26_Witness ==
    /\ BothDone
    /\ fnIn.keys = PyTuple(<<"a", "b">>)
    /\ fnIn.dct = [k \in {"a", "b"} |->
                      IF k = "a" THEN [j \in {"a", "b"} |-> PyInt(1)]
                      ELSE PyInt(1)]
    /\ fnOut.set.answer["a"]["b"] = [k \in {"a"} |-> PyInt(7)]
    /\ fnOut.set.answer["a"]["a"] = PyInt(1)
    /\ fnOut.get.answer = [k \in {"a"} |-> PyInt(7)]

\* both functions were called with an empty tuple
C26_WitnessEmpty ==
    /\ BothDone
    /\ fnIn.keys = PyTuple(<<>>)
    /\ fnOut.get.err = "ValueError"

(***************************************************************************)
(* The keys of a path.                                                     *)
(***************************************************************************)
PathDone == fnIn # NotRun /\ fnIn.fn = "split" /\ fnOut # NotRun

\* the separators a text holds
SeparatorsIn(s) == {x \in SeqSet(SEPARATORS) : Has(s, x)}

\* the keys of a tuple written one after the other with `sep` in between
RECURSIVE JoinKeys(_, _)
JoinKeys(q, sep) ==
    IF q = <<>> THEN <<>>
    ELSE IF Len(q) = 1 THEN q[1]
    ELSE q[1] \o <<sep>> \o JoinKeys(Tail(q), sep)

\* C27: for a str path with one kind of separator split_nested_path returns
\* the tuple of the texts between the separators, from left to right; for a
\* str path without a separator it returns the tuple of the one key; a tuple
\* is returned as it is; a str with both separators raises ValueError and a
\* path that is neither str nor tuple raises TypeError.
C27_KeysLeftToRight ==
    PathDone =>
        IF IsStr(fnIn.path) THEN
            IF Cardinality(SeparatorsIn(fnIn.path.s)) = 2
            THEN fnOut.err = "ValueError"
            ELSE IF Cardinality(SeparatorsIn(fnIn.path.s)) = 1
            THEN LET sep == CHOOSE x \in SeparatorsIn(fnIn.path.s) : TRUE
                 IN  /\ fnOut.err = NoErr
                     /\ IsTuple(fnOut.answer)
                     /\ \A k \in DOMAIN fnOut.answer.items :
                           ~Has(fnOut.answer.items[k], sep)
                     /\ JoinKeys(fnOut.answer.items, sep) = fnIn.path.s
            ELSE fnOut = Got(PyTuple(<<fnIn.path.s>>), NoErr)
        ELSE IF IsTuple(fnIn.path) THEN fnOut = Got(fnIn.path, NoErr)
        ELSE fnOut.err = "TypeError"

(***************************************************************************)
(* model_building.simulating and the end of run_oemof                      *)
(* (D0_modelling_and_optimization.py).  The solved model yields its main   *)
(* results (the flows) and its meta results (the objective and the time    *)
(* of the solver, here in milliseconds); solve() ends without a warning,   *)
(* or with a UserWarning that simulating catches.                          *)
(***************************************************************************)
SIMULATION_RESULTS == "simulation_results"

MainResults(flows) == [t |-> "main", flows |-> flows]

MetaResults(objective, time) ==
    [t |-> "meta", objective |-> objective, solver |-> [Time |-> time]]

\* round(seconds, 2) of a time given in milliseconds, in hundredths
Round2(ms) == (ms + 5) \div 10

\* lines 287-311: what the solve step logs
SolveLog(warning) ==
    IF warning = "infeasible" THEN {"infeasible_explained"} ELSE {}

\* lines 267-333; the third value returned is results_main
simulating(dict_values, model, local_energy_system) ==
    LET results_main == MainResults(local_energy_system.flows)
        results_meta == MetaResults(local_energy_system.objective,
                                    local_energy_system.time)
    IN  [ret |-> <<[model EXCEPT !.results =
                       [main |-> results_main, meta |-> results_meta]],
                   results_main, results_main>>,
         dict_values |->
            Put(dict_values, SIMULATION_RESULTS,
                [label |-> SIMULATION_RESULTS,
                 objective_value |-> results_meta.objective,
                 simulation_time |-> Round2(results_meta.solver.Time)]),
         log |-> SolveLog(local_energy_system.warning)]

\* lines 105-111: model, results_main, results_meta = simulating(...);
\* return results_meta, results_main
run_oemof_return(sim) == <<sim.ret[3], sim.ret[2]>>

Flows == {<<>>, <<1>>, <<1, 2>>, <<2, 1>>}

Objectives == 0..3

SolverTimes == {0, 12, 1234, 61236}

SolveWarnings == {"none", "infeasible", "other"}

InitSim ==
    /\ IdleCoerce
    /\ IdleCmp
    /\ IdleLd
    /\ IdleRun
    /\ \E f \in Flows, o \in Objectives, ms \in SolverTimes,
          w \in SolveWarnings, given \in {EmptyDict, [k \in {"project_data"} |-> PyNone]} :
          fnIn = [fn |-> "run_oemof",
                  dict_values |-> given,
                  model |-> [results |-> EmptyDict],
                  local_energy_system |->
                     [flows |-> f, objective |-> o, time |-> ms, warning |-> w]]
    /\ fnOut = NotRun

\* model_building.simulating(dict_values, model, local_energy_system)
Simulating ==
    /\ fnIn # NotRun /\ fnIn.fn = "run_oemof"
    /\ fnOut = NotRun
    /\ fnOut' = [sim |-> simulating(fnIn.dict_values, fnIn.model,
                                    fnIn.local_energy_system),
                 returned |-> NotRun]
    /\ UNCHANGED <<fnIn, coerceVars, cmpVars, ldVars, runVars>>

\* run_oemof takes the three values and returns two of them
RunOemofReturn ==
    /\ fnIn # NotRun /\ fnIn.fn = "run_oemof"
    /\ fnOut # NotRun /\ fnOut.returned = NotRun
    /\ fnOut' = [fnOut EXCEPT !.returned = run_oemof_return(fnOut.sim)]
    /\ UNCHANGED <<fnIn, coerceVars, cmpVars, ldVars, runVars>>

NextSim == Simulating \/ RunOemofReturn

SpecSim == InitSim /\ [][NextSim]_vars

SimDone == fnIn # NotRun /\ fnIn.fn = "run_oemof" /\ fnOut # NotRun

\* the meta results of the solved model
MetaOfModel ==
    MetaResults(fnIn.local_energy_system.objective, fnIn.local_energy_system.time)

\* C28: simulating returns the model with its results, the main results and
\* the meta results, the third being what model.results["meta"] holds; the
\* first value run_oemof returns is the meta results, the second the main
\* results.
C28_MetaResultsReturned ==
    SimDone =>
        /\ fnOut.sim.ret[1].results["meta"] = MetaOfModel
        /\ fnOut.sim.ret[2] = fnOut.sim.ret[1].results["main"]
        /\ fnOut.sim.ret[3] = fnOut.sim.ret[1].results["meta"]
        /\ fnOut.returned # NotRun =>
              /\ fnOut.returned[1] = MetaOfModel
              /\ fnOut.returned[2] = fnOut.sim.ret[1].results["main"]

(***************************************************************************)
(* Keys that the parent record and the sub-table share.                    *)
(***************************************************************************)
\* the keys of the record of column c of energyStorage that its sub-table
\* gives as well
Colliding(c) ==
    SeqSet(RunTable("energyStorage").index) \cap AssetColumns(RunTable(SubTableOf(c)))

\* the entry that the row i of energyStorage gives for column c on its own
OwnEntry(i, c) ==
    ProcessCell(EmptyDict, RunTable("energyStorage").unit[i], i,
                RunTable("energyStorage").cell[i][c]).dict[i]

\* C29: in the emitted tree the record of an asset column of energyStorage
\* holds, for every key of its sub-table, the entry of the sub-table, also
\* where a row of energyStorage has given an entry under that key, and for
\* every other row of energyStorage the entry of that row; the call has
\* completed, and its log holds nothing on the shared key but the report of
\* the parameter check that the row is not recognized.
C29_SubTableReplaces ==
    EmittedStorage =>
        \A c \in AssetColumns(RunTable("energyStorage")) :
           /\ \A k \in AssetColumns(RunTable(SubTableOf(c))) :
                 artifact["energyStorage"][c][k] =
                     add_storage_components(SubTableOf(c), input_directory).ret[k]
           /\ \A i \in SeqSet(RunTable("energyStorage").index) \ Colliding(c) :
                 artifact["energyStorage"][c][i] = OwnEntry(i, c)
           /\ \A k \in Colliding(c) :
                 /\ runErr = NoErr
                 /\ {g \in runLog : g.param = k} =
                       {Diag("not_recognized", "energyStorage", "", k)}

\* a tree was emitted in which the sub-table's record stands under the key
\* "storage capacity", where the row of energyStorage had put the text "own"
C29_Witness ==
    /\ EmittedStorage
    /\ "storage capacity" \in Colliding("storage_01")
    /\ OwnEntry("storage capacity", "storage_01") = Txt("own")
    /\ "capex_fix" \in DOMAIN artifact["energyStorage"]["storage_01"]["storage capacity"]
    /\ artifact["energyStorage"]["storage_01"]["label"] = Txt("ess")

(***************************************************************************)
(* Columns of a storage table that are none of the three roles.            *)
(***************************************************************************)
LdInvalid == LdAssets \ RoleNames

\* C30: a load of a storage table with a column that is none of the three
\* roles logs a diagnostic on the column name and does not raise on its
\* account, whether the column is the first one or follows a role column;
\* no role-specific parameter counts as required for it: none is reported
\* as missing, none has a null cell replaced by 0, none is in its record.
C30_InvalidColumnNoCarryOver ==
    (LdParsed /\ ldIn.storage) =>
        \A c \in LdInvalid :
           /\ ldOut.err # "UnboundLocalError"
           /\ ldOut.err = NoErr =>
                 /\ "" \in Logged("invalid_column", c)
                 /\ Logged("missing", c) \cap StorageSpecific = {}
                 /\ Logged("set_to_zero", c) \cap StorageSpecific = {}
                 /\ DOMAIN LdRecord(c) \cap StorageSpecific = {}

====
